---- MODULE Spec2Model ----
(***************************************************************************)
(* PythPredict: a binary-outcome pooled prediction market (Anchor program). *)
(*                                                                         *)
(* The model covers one Market account, its three vaults, the Position of  *)
(* every participant, the market's MarketMaker and the FeeCollector, and    *)
(* the instructions of programs/pythpredict/src/instructions.rs.            *)
(*                                                                         *)
(* Token amounts are scaled: the u64 domain of the program is 0..U64_MAX    *)
(* with U64_MAX = 2^U64Bits - 1, and the bet limits are scaled with it.     *)
(* An instruction that returns Err (or panics) is rolled back as a whole:   *)
(* Anchor writes the accounts back only when the handler returns Ok and     *)
(* the runtime discards the token transfers of a failed transaction.        *)
(* The bookkeeping fields that no guard or payout reads are not modelled:   *)
(* Position.entry_odds_yes, entry_odds_no and bet_timestamp,                *)
(* Market.oracle_last_update and created_at, MarketMaker.last_rebalance.    *)
(***************************************************************************)
EXTENDS Integers, Naturals, Sequences, FiniteSets, TLC

\* ---------------------------------------------------------------- bounds
U64Bits == 14
U64_MAX == 2^U64Bits - 1

MinBetAmount == 100
MaxBetAmount == 150
MaxDeposits == 3

\* ------------------------------------------------------ program constants
BPS_DENOMINATOR == 10000
DefaultFeeBps == 100
min_settlement_time == 10
max_settlement_time == 31536000

Users == {"u1", "u2"}
Outcomes == {"Yes", "No"}
InitialPrices == {95000}
Prices == {94000, 95000}
SettleTimes == {11}

\* Option<T>: None is the empty sequence, Some(x) the sequence <<x>>.
None == << >>
Some(x) == <<x>>
IsSome(o) == Len(o) = 1
Unwrap(o) == o[1]

\* ------------------------------------------------------- u64 arithmetic
checked_add(a, b) == IF a + b <= U64_MAX THEN Some(a + b) ELSE None
checked_mul(a, b) == IF a * b <= U64_MAX THEN Some(a * b) ELSE None
checked_sub(a, b) == IF a >= b THEN Some(a - b) ELSE None
checked_div(a, b) == IF b # 0 THEN Some(a \div b) ELSE None
wrapping_add(a, b) == (a + b) % (U64_MAX + 1)
wrapping_mul(a, b) == (a * b) % (U64_MAX + 1)

\* Instruction outcomes: a result tag and the accounts as the handler left
\* them in memory when it returned.
Ok(s) == [res |-> "Ok", st |-> s]
Err(e, s) == [res |-> e, st |-> s]

\* token::transfer(ctx, amount) between two token accounts of the collateral
\* mint: the outcome, given the balances of the source and the destination.
token_transfer(from_balance, to_balance, amount) ==
    IF from_balance < amount THEN "InsufficientFunds"
    ELSE IF to_balance + amount > U64_MAX THEN "TokenOverflow"
    ELSE "Ok"

\* A fee function that rounds both parts down from the amount.
calculate_fee_BothRounded(amount, fee_bps) ==
    LET prod == checked_mul(amount, fee_bps)
        rest == checked_sub(BPS_DENOMINATOR, fee_bps)
    IN
    IF ~IsSome(prod) \/ ~IsSome(rest) THEN None
    ELSE LET keep == checked_mul(amount, Unwrap(rest)) IN
         IF ~IsSome(keep) THEN None
         ELSE Some(<<Unwrap(prod) \div BPS_DENOMINATOR,
                     Unwrap(keep) \div BPS_DENOMINATOR>>)

\* calculate_fee(amount, fee_bps) -> Result<(fee, amount_after_fee)>
calculate_fee(amount, fee_bps) ==
    LET prod == checked_mul(amount, fee_bps) IN
    IF ~IsSome(prod) THEN None
    ELSE LET fee == Unwrap(prod) \div BPS_DENOMINATOR
             after == checked_sub(amount, fee)
         IN IF ~IsSome(after) THEN None ELSE Some(<<fee, Unwrap(after)>>)

\* The Result of a pure function: res is "Ok" or the error, val the value.
Value(v) == [res |-> "Ok", val |-> v]
Failure(e) == [res |-> e, val |-> <<>>]

\* A payout function without the check of the winning pool.
calculate_payout_NoPoolCheck(user_stake, winning_pool, losing_pool) ==
    IF losing_pool = 0 THEN Value(user_stake)
    ELSE LET total == checked_add(winning_pool, losing_pool) IN
         IF ~IsSome(total) THEN Failure("MathOverflow")
         ELSE LET prod == checked_mul(user_stake, Unwrap(total)) IN
              IF ~IsSome(prod) \/ winning_pool = 0 THEN Failure("MathOverflow")
              ELSE Value(Unwrap(prod) \div winning_pool)

\* A payout function that pays the share of the losing pool only.
calculate_payout_ProfitOnly(user_stake, winning_pool, losing_pool) ==
    IF winning_pool = 0 THEN Failure("InvalidPool")
    ELSE IF losing_pool = 0 THEN Value(user_stake)
    ELSE LET prod == checked_mul(user_stake, losing_pool) IN
         IF ~IsSome(prod) THEN Failure("MathOverflow")
         ELSE Value(Unwrap(prod) \div winning_pool)

\* calculate_payout(user_stake, winning_pool, losing_pool) -> Result<u64>
calculate_payout(user_stake, winning_pool, losing_pool) ==
    IF winning_pool = 0 THEN Failure("InvalidPool")
    ELSE IF losing_pool = 0 THEN Value(user_stake)
    ELSE LET total == checked_add(winning_pool, losing_pool) IN
         IF ~IsSome(total) THEN Failure("MathOverflow")
         ELSE LET prod == checked_mul(user_stake, Unwrap(total)) IN
              IF ~IsSome(prod) THEN Failure("MathOverflow")
              ELSE Value(Unwrap(prod) \div winning_pool)

\* ---------------------------------------------------------------- state
VARIABLES
    market,              \* the Market account
    positions,           \* Position account of each participant
    market_maker,        \* the MarketMaker account of the market
    yes_vault,           \* token balance of the YES vault
    no_vault,            \* token balance of the NO vault
    fee_vault,           \* token balance of the fee vault
    user_token_account,  \* token balance of each participant
    treasury_account,    \* token balance of the treasury
    fee_collector,       \* the FeeCollector account
    now,                 \* Clock::get().unix_timestamp
    deposits,            \* number of accepted bets and liquidity provisions
    last,                \* the last instruction processed and its outcome
    call                 \* the last call of a pure function and its result

vars == <<market, positions, market_maker, yes_vault, no_vault, fee_vault,
          user_token_account, treasury_account, fee_collector, now, deposits, last,
          call>>

\* The accounts an instruction may touch, as one value.
Accounts ==
    [market |-> market, positions |-> positions, market_maker |-> market_maker,
     yes_vault |-> yes_vault, no_vault |-> no_vault, fee_vault |-> fee_vault,
     user_token_account |-> user_token_account,
     treasury_account |-> treasury_account, fee_collector |-> fee_collector]

\* A Position account that init_if_needed has not created yet (all zero).
EmptyPosition ==
    [exists |-> FALSE, yes_amount |-> 0, no_amount |-> 0, claimed |-> FALSE,
     total_invested |-> 0, pending_payout |-> 0]

\* A MarketMaker account that has not been created yet.
EmptyMarketMaker ==
    [exists |-> FALSE, is_active |-> FALSE, target_spread_bps |-> 0,
     max_exposure |-> 0, current_exposure |-> 0, total_volume_provided |-> 0]

\* initialize_market: the Market account it writes.
initialize_market(creator, initial_price, settle_time, resolver_authority, clock) ==
    [creator |-> creator,
     target_price |-> initial_price,
     settle_time |-> settle_time,
     yes_pool |-> 0,
     no_pool |-> 0,
     is_resolved |-> FALSE,
     winning_outcome |-> None,
     resolver_authority |->
         IF IsSome(resolver_authority) THEN Unwrap(resolver_authority) ELSE creator,
     total_volume |-> 0,
     fee_bps |-> DefaultFeeBps,
     final_price |-> None,
     total_fees_collected |-> 0,
     min_bet_amount |-> MinBetAmount,
     max_bet_amount |-> MaxBetAmount,
     market_status |-> "Active",
     emergency_paused |-> FALSE]

\* The settlement-time window initialize_market requires.
SettleTimeOk(settle_time, clock) ==
    /\ settle_time > clock + min_settlement_time
    /\ settle_time < clock + max_settlement_time

\* The rejections that depend on the amount submitted.
AmountErrors == {"InvalidAmount", "BetTooSmall", "BetTooLarge"}

\* The instructions whose account constraints name the signer.
SignerChecked ==
    {"claim_winnings", "resolve_market", "resolve_with_external_price",
     "consolidate_funds"}

\* What the model records of the last instruction: its name and outcome;
\* of an accepted instruction also the signer, the arguments and the amounts
\* it moved out of the winning-side and losing-side vaults; of an
\* instruction rejected by an overflow, the signer, the amount and the side;
\* of one rejected because of its amount, the amount; of any other rejected
\* instruction, the signer where the instruction's constraints name it.
Instruction(op, who, amount, side, price, res, paid_win, paid_lose) ==
    IF res = "Ok"
    THEN [op |-> op, who |-> who, amount |-> amount, side |-> side,
          price |-> price, res |-> res, paid_win |-> paid_win,
          paid_lose |-> paid_lose]
    ELSE IF res = "MathOverflow"
    THEN [op |-> op, who |-> who, amount |-> amount, side |-> side,
          price |-> 0, res |-> res, paid_win |-> 0, paid_lose |-> 0]
    ELSE IF res \in AmountErrors
    THEN [op |-> op, who |-> "u1", amount |-> amount, side |-> "Yes",
          price |-> 0, res |-> res, paid_win |-> 0, paid_lose |-> 0]
    ELSE [op |-> op, who |-> IF op \in SignerChecked THEN who ELSE "u1",
          amount |-> 0, side |-> "Yes", price |-> 0,
          res |-> res, paid_win |-> 0, paid_lose |-> 0]

NoInstruction == Instruction("initialize_market", "u1", 0, "Yes", 0, "Ok", 0, 0)

\* The collateral the participants hold when the market is created. One
\* mint has a u64 supply, so the balances add up to at most U64_MAX.
Funding == [u \in Users |-> IF u = "u1" THEN U64_MAX - MinBetAmount ELSE MinBetAmount]

\* Balances no single mint can supply: one participant holds the u64
\* maximum and the other one more bet of the largest size.
OverFunding == [u \in Users |-> IF u = "u1" THEN U64_MAX ELSE MaxBetAmount]

\* A call of one of the pure functions of state.rs: the function, its
\* arguments, and the Result it returned (val is <<>> on Err).
Call(fn, args, result) == [fn |-> fn, args |-> args, result |-> result]
NoCall == Call("none", <<>>, Value(<<>>))

InitWith(funding) ==
    \E initial_price \in InitialPrices, settle_time \in SettleTimes,
       resolver_authority \in {None} :
        /\ SettleTimeOk(settle_time, 0)
        /\ market = initialize_market("u1", initial_price, settle_time,
                                      resolver_authority, 0)
        /\ positions = [u \in Users |-> EmptyPosition]
        /\ market_maker = EmptyMarketMaker
        /\ yes_vault = 0
        /\ no_vault = 0
        /\ fee_vault = 0
        /\ user_token_account = funding
        /\ treasury_account = 0
        /\ fee_collector = [authority |-> "u1", total_fees_collected |-> 0,
                            treasury |-> "u1"]
        /\ now = 0
        /\ deposits = 0
        /\ last = NoInstruction
        /\ call = NoCall

Init == InitWith(Funding)
InitFunded == InitWith(OverFunding)

\* ------------------------------------------------------------ place_bet
PoolOf(m, outcome) == IF outcome = "Yes" THEN m.yes_pool ELSE m.no_pool
StakeOf(p, outcome) == IF outcome = "Yes" THEN p.yes_amount ELSE p.no_amount

\* Mutant: the minimum compared with `>` instead of `>=`.
place_bet_guard_StrictMin(m, amount, clock) ==
    IF m.is_resolved THEN "MarketAlreadyResolved"
    ELSE IF ~(clock < m.settle_time) THEN "MarketClosed"
    ELSE IF m.emergency_paused THEN "MarketPaused"
    ELSE IF ~(m.market_status = "Active" \/ m.market_status = "PendingLiquidity")
         THEN "MarketNotActive"
    ELSE IF ~(amount > 0) THEN "InvalidAmount"
    ELSE IF ~(amount > m.min_bet_amount) THEN "BetTooSmall"
    ELSE IF ~(amount <= m.max_bet_amount) THEN "BetTooLarge"
    ELSE "Ok"

\* The guards of place_bet, in the order of the require! statements.
place_bet_guard(m, amount, clock) ==
    IF m.is_resolved THEN "MarketAlreadyResolved"
    ELSE IF ~(clock < m.settle_time) THEN "MarketClosed"
    ELSE IF m.emergency_paused THEN "MarketPaused"
    ELSE IF ~(m.market_status = "Active" \/ m.market_status = "PendingLiquidity")
         THEN "MarketNotActive"
    ELSE IF ~(amount > 0) THEN "InvalidAmount"
    ELSE IF ~(amount >= m.min_bet_amount) THEN "BetTooSmall"
    ELSE IF ~(amount <= m.max_bet_amount) THEN "BetTooLarge"
    ELSE "Ok"

\* A fee transfer that does not count the fee in total_fees_collected.
place_bet_fee_Uncounted(a, u, fee) ==
    IF fee > 0
    THEN LET t == token_transfer(a.user_token_account[u], a.fee_vault, fee)
             a1 == [a EXCEPT !.user_token_account[u] = @ - fee,
                             !.fee_vault = @ + fee]
         IN IF t # "Ok" THEN Err(t, a) ELSE Ok(a1)
    ELSE Ok(a)

\* place_bet step 1: the fee transfer and total_fees_collected.
place_bet_fee(a, u, fee) ==
    IF fee > 0
    THEN LET t == token_transfer(a.user_token_account[u], a.fee_vault, fee)
             a1 == [a EXCEPT !.user_token_account[u] = @ - fee,
                             !.fee_vault = @ + fee]
             sum == checked_add(a.market.total_fees_collected, fee)
         IN IF t # "Ok" THEN Err(t, a)
            ELSE IF IsSome(sum)
            THEN Ok([a1 EXCEPT !.market.total_fees_collected = Unwrap(sum)])
            ELSE Err("MathOverflow", a1)
    ELSE Ok(a)

\* Mutant: the pool is set to the bet instead of being increased by it, as
\* a write from a stale read of an empty pool would.
place_bet_pool_Overwrite(a, u, net, outcome) ==
    LET t == token_transfer(a.user_token_account[u],
                            IF outcome = "Yes" THEN a.yes_vault ELSE a.no_vault,
                            net)
        a1 == IF outcome = "Yes"
              THEN [a EXCEPT !.user_token_account[u] = @ - net, !.yes_vault = @ + net]
              ELSE [a EXCEPT !.user_token_account[u] = @ - net, !.no_vault = @ + net]
    IN IF t # "Ok" THEN Err(t, a)
       ELSE IF outcome = "Yes"
            THEN Ok([a1 EXCEPT !.market.yes_pool = net])
            ELSE Ok([a1 EXCEPT !.market.no_pool = net])

\* place_bet step 2: the stake transfer and the pool of the chosen side.
place_bet_pool(a, u, net, outcome) ==
    LET t == token_transfer(a.user_token_account[u],
                            IF outcome = "Yes" THEN a.yes_vault ELSE a.no_vault,
                            net)
        a1 == IF outcome = "Yes"
              THEN [a EXCEPT !.user_token_account[u] = @ - net, !.yes_vault = @ + net]
              ELSE [a EXCEPT !.user_token_account[u] = @ - net, !.no_vault = @ + net]
        sum == checked_add(PoolOf(a.market, outcome), net)
    IN IF t # "Ok" THEN Err(t, a)
       ELSE IF ~IsSome(sum) THEN Err("MathOverflow", a1)
       ELSE IF outcome = "Yes"
            THEN Ok([a1 EXCEPT !.market.yes_pool = Unwrap(sum)])
            ELSE Ok([a1 EXCEPT !.market.no_pool = Unwrap(sum)])

\* The position as init_if_needed and the "market == default" branch leave it.
InitPositionIfNeeded(p) ==
    IF ~p.exists
    THEN [exists |-> TRUE, yes_amount |-> 0, no_amount |-> 0, claimed |-> FALSE,
          total_invested |-> 0, pending_payout |-> 0]
    ELSE p

\* place_bet step 3: the position's stake and total_invested.
place_bet_position(a, u, amount, net, outcome) ==
    LET p0 == InitPositionIfNeeded(a.positions[u])
        a0 == [a EXCEPT !.positions[u] = p0]
        stake == checked_add(StakeOf(p0, outcome), net)
    IN IF ~IsSome(stake) THEN Err("MathOverflow", a0)
       ELSE LET p1 == IF outcome = "Yes"
                      THEN [p0 EXCEPT !.yes_amount = Unwrap(stake)]
                      ELSE [p0 EXCEPT !.no_amount = Unwrap(stake)]
                a1 == [a EXCEPT !.positions[u] = p1]
                inv == checked_add(p1.total_invested, amount)
            IN IF ~IsSome(inv) THEN Err("MathOverflow", a1)
               ELSE Ok([a1 EXCEPT !.positions[u].total_invested = Unwrap(inv)])

\* Mutant: total_volume accumulates the amount net of the fee.
place_bet_volume_Net(a, amount) ==
    LET net == amount - (amount * a.market.fee_bps) \div BPS_DENOMINATOR
        vol == checked_add(a.market.total_volume, net)
    IN IF ~IsSome(vol) THEN Err("MathOverflow", a)
       ELSE Ok([a EXCEPT !.market.total_volume = Unwrap(vol)])

\* place_bet step 4: total_volume.
place_bet_volume(a, amount) ==
    LET vol == checked_add(a.market.total_volume, amount)
    IN IF ~IsSome(vol) THEN Err("MathOverflow", a)
       ELSE Ok([a EXCEPT !.market.total_volume = Unwrap(vol)])

\* place_bet(ctx, amount, outcome) with `u` the better.
place_bet(a, u, amount, outcome, clock) ==
    LET g == place_bet_guard(a.market, amount, clock) IN
    IF g # "Ok" THEN Err(g, a)
    ELSE LET cf == calculate_fee(amount, a.market.fee_bps) IN
    IF ~IsSome(cf) THEN Err("MathOverflow", a)
    ELSE LET fee == Unwrap(cf)[1]
             net == Unwrap(cf)[2]
             r1 == place_bet_fee(a, u, fee)
         IN
    IF r1.res # "Ok" THEN r1
    ELSE LET r2 == place_bet_pool(r1.st, u, net, outcome) IN
    IF r2.res # "Ok" THEN r2
    ELSE LET r3 == place_bet_position(r2.st, u, amount, net, outcome) IN
    IF r3.res # "Ok" THEN r3
    ELSE place_bet_volume(r3.st, amount)

\* -------------------------------------------------------------- resolve
\* Mutant: YES only if the price rose above target_price.
WinningOutcome_OnlyRise(current_price, initial_price) ==
    IF current_price > initial_price THEN 0 ELSE 1

\* The winning side: YES (0) if the price moved away from target_price.
WinningOutcome(current_price, initial_price) ==
    IF current_price # initial_price THEN 0 ELSE 1

\* A resolver constraint that lets every signer through.
ResolverConstraint_AnySigner(m, resolver) == "Ok"

\* The resolver constraint of ResolveMarket and ResolveWithExternalPrice.
ResolverConstraint(m, resolver) ==
    IF resolver = m.resolver_authority THEN "Ok" ELSE "UnauthorizedResolver"

\* Mutant: the guard without the `!market.is_resolved` check.
resolve_guard_NoResolvedCheck(m, clock) ==
    IF ~(clock >= m.settle_time) THEN "SettlementTimeNotReached" ELSE "Ok"

\* Market::can_resolve and the two require! statements of both resolve paths.
resolve_guard(m, clock) ==
    IF m.is_resolved THEN "MarketAlreadyResolved"
    ELSE IF ~(clock >= m.settle_time) THEN "SettlementTimeNotReached"
    ELSE "Ok"

\* Mutant: a resolution that forgets to move the status to Resolved.
resolve_with_external_price_NoStatus(a, resolver, final_price, clock) ==
    LET c == ResolverConstraint(a.market, resolver)
        g == resolve_guard(a.market, clock)
    IN IF c # "Ok" THEN Err(c, a)
       ELSE IF g # "Ok" THEN Err(g, a)
       ELSE Ok([a EXCEPT
                  !.market.is_resolved = TRUE,
                  !.market.winning_outcome =
                      Some(WinningOutcome(final_price, a.market.target_price)),
                  !.market.final_price = Some(final_price)])

\* resolve_with_external_price(ctx, final_price)
resolve_with_external_price(a, resolver, final_price, clock) ==
    LET c == ResolverConstraint(a.market, resolver)
        g == resolve_guard(a.market, clock)
    IN IF c # "Ok" THEN Err(c, a)
       ELSE IF g # "Ok" THEN Err(g, a)
       ELSE Ok([a EXCEPT
                  !.market.is_resolved = TRUE,
                  !.market.winning_outcome =
                      Some(WinningOutcome(final_price, a.market.target_price)),
                  !.market.final_price = Some(final_price),
                  !.market.market_status = "Resolved"])

\* An oracle path that resolves only after settle_time has passed.
resolve_market_StrictTime(a, resolver, feed, clock) ==
    LET c == ResolverConstraint(a.market, resolver)
        g == IF a.market.is_resolved THEN "MarketAlreadyResolved"
             ELSE IF ~(clock > a.market.settle_time)
             THEN "SettlementTimeNotReached"
             ELSE "Ok"
    IN IF c # "Ok" THEN Err(c, a)
       ELSE IF g # "Ok" THEN Err(g, a)
       ELSE IF ~IsSome(feed) THEN Err("OracleError", a)
       ELSE Ok([a EXCEPT
                  !.market.is_resolved = TRUE,
                  !.market.winning_outcome =
                      Some(WinningOutcome(Unwrap(feed), a.market.target_price)),
                  !.market.final_price = Some(Unwrap(feed)),
                  !.market.market_status = "Resolved"])

\* resolve_market(ctx): `feed` is what parse_pyth_price_alternative reads
\* from the feed account, None when the account data is too short.
resolve_market(a, resolver, feed, clock) ==
    LET c == ResolverConstraint(a.market, resolver)
        g == resolve_guard(a.market, clock)
    IN IF c # "Ok" THEN Err(c, a)
       ELSE IF g # "Ok" THEN Err(g, a)
       ELSE IF ~IsSome(feed) THEN Err("OracleError", a)
       ELSE Ok([a EXCEPT
                  !.market.is_resolved = TRUE,
                  !.market.winning_outcome =
                      Some(WinningOutcome(Unwrap(feed), a.market.target_price)),
                  !.market.final_price = Some(Unwrap(feed)),
                  !.market.market_status = "Resolved"])

\* ------------------------------------------------------- claim_winnings
\* Mutant: the stakes compared with `>=` instead of `>`.
has_position_NonNegative(p) == p.yes_amount >= 0 \/ p.no_amount >= 0

\* Position::has_position
has_position(p) == p.yes_amount > 0 \/ p.no_amount > 0

\* Mutant: the stake of the other side.
get_winning_stake_Swapped(p, winning_outcome) ==
    IF winning_outcome = 0 THEN p.no_amount
    ELSE IF winning_outcome = 1 THEN p.yes_amount
    ELSE 0

\* Position::get_winning_stake
get_winning_stake(p, winning_outcome) ==
    IF winning_outcome = 0 THEN p.yes_amount
    ELSE IF winning_outcome = 1 THEN p.no_amount
    ELSE 0

\* Mutant: the constraint without the `!position.claimed` check.
ClaimWinningsConstraint_NoClaimedCheck(p) ==
    IF ~p.exists THEN "AccountNotInitialized" ELSE "Ok"

\* The account constraints of ClaimWinnings on the claimer's position.
ClaimWinningsConstraint(p) ==
    IF ~p.exists THEN "AccountNotInitialized"
    ELSE IF p.claimed THEN "AlreadyClaimed"
    ELSE "Ok"

\* The profit of a winning stake: stake * lose_pool / win_pool in u128,
\* cast back to u64.
claim_profit(winning_stake, win_pool, lose_pool) ==
    IF lose_pool = 0 THEN Some(0)
    ELSE IF win_pool = 0 THEN None
    ELSE Some(((winning_stake * lose_pool) \div win_pool) % (U64_MAX + 1))

\* The two transfers of claim_winnings and the final position update.
claim_pay(a, u, winning_outcome, winning_stake, profit) ==
    LET win_bal == IF winning_outcome = 0 THEN a.yes_vault ELSE a.no_vault
        lose_bal == IF winning_outcome = 0 THEN a.no_vault ELSE a.yes_vault
        t1 == token_transfer(win_bal, a.user_token_account[u], winning_stake)
    IN IF t1 # "Ok" THEN Err(t1, a)
       ELSE LET a1 == IF winning_outcome = 0
                      THEN [a EXCEPT !.yes_vault = @ - winning_stake,
                                     !.user_token_account[u] = @ + winning_stake]
                      ELSE [a EXCEPT !.no_vault = @ - winning_stake,
                                     !.user_token_account[u] = @ + winning_stake]
                t2 == token_transfer(lose_bal, a1.user_token_account[u], profit)
            IN IF profit > 0 /\ t2 # "Ok" THEN Err(t2, a1)
               ELSE LET a2 == IF profit = 0 THEN a1
                              ELSE IF winning_outcome = 0
                              THEN [a1 EXCEPT !.no_vault = @ - profit,
                                              !.user_token_account[u] = @ + profit]
                              ELSE [a1 EXCEPT !.yes_vault = @ - profit,
                                              !.user_token_account[u] = @ + profit]
                    IN Ok([a2 EXCEPT !.positions[u].claimed = TRUE,
                                     !.positions[u].pending_payout = 0])

\* claim_winnings(ctx) with `u` the claimer.
claim_winnings(a, u) ==
    LET m == a.market
        p == a.positions[u]
        c == ClaimWinningsConstraint(p)
    IN IF c # "Ok" THEN Err(c, a)
       ELSE IF ~m.is_resolved THEN Err("MarketNotResolved", a)
       ELSE IF ~has_position(p) THEN Err("NoPosition", a)
       ELSE IF ~IsSome(m.winning_outcome) THEN Err("MarketNotResolved", a)
       ELSE LET winning_outcome == Unwrap(m.winning_outcome)
                winning_stake == get_winning_stake(p, winning_outcome)
            IN
       IF winning_stake = 0 THEN Ok([a EXCEPT !.positions[u].claimed = TRUE])
       ELSE IF winning_outcome \notin {0, 1} THEN Err("InvalidPool", a)
       ELSE LET win_pool == IF winning_outcome = 0 THEN m.yes_pool ELSE m.no_pool
                lose_pool == IF winning_outcome = 0 THEN m.no_pool ELSE m.yes_pool
                profit == claim_profit(winning_stake, win_pool, lose_pool)
            IN
       IF ~IsSome(profit) THEN Err("MathOverflow", a)
       ELSE IF ~IsSome(checked_add(winning_stake, Unwrap(profit)))
            THEN Err("MathOverflow", a)
       ELSE claim_pay(a, u, winning_outcome, winning_stake, Unwrap(profit))

\* ---------------------------------------------------------- market maker
\* initialize_market_maker(ctx, target_spread_bps, max_exposure); the
\* `init` constraint rejects an account that already exists.
initialize_market_maker(a, target_spread_bps, max_exposure) ==
    IF a.market_maker.exists THEN Err("AccountAlreadyInUse", a)
    ELSE Ok([a EXCEPT !.market_maker =
                [exists |-> TRUE, is_active |-> TRUE,
                 target_spread_bps |-> target_spread_bps,
                 max_exposure |-> max_exposure,
                 current_exposure |-> 0,
                 total_volume_provided |-> 0]])

\* Unchecked u64 `+` and `*`: with overflow checks compiled in an overflow
\* panics (None), without them the result wraps.
unchecked_add(x, y, overflow_checks) ==
    IF x + y <= U64_MAX THEN Some(x + y)
    ELSE IF overflow_checks THEN None
    ELSE Some(wrapping_add(x, y))

unchecked_mul(x, y, overflow_checks) ==
    IF x * y <= U64_MAX THEN Some(x * y)
    ELSE IF overflow_checks THEN None
    ELSE Some(wrapping_mul(x, y))

\* Mutant: no exposure limit.
ExposureAllowed_Unchecked(total_exposure, max_exposure) == TRUE

\* The exposure check of provide_liquidity.
ExposureAllowed(total_exposure, max_exposure) == total_exposure <= max_exposure

\* Mutant: total_volume grows by the amount of one side only.
provide_liquidity_market_VolumeOnce(a, amount_per_side, doubled) ==
    LET yes == checked_add(a.market.yes_pool, amount_per_side) IN
    IF ~IsSome(yes) THEN Err("MathOverflow", a)
    ELSE LET a1 == [a EXCEPT !.market.yes_pool = Unwrap(yes)]
             no == checked_add(a1.market.no_pool, amount_per_side)
         IN
    IF ~IsSome(no) THEN Err("MathOverflow", a1)
    ELSE LET a2 == [a1 EXCEPT !.market.no_pool = Unwrap(no)]
             vol == checked_add(a2.market.total_volume, amount_per_side)
         IN
    IF ~IsSome(vol) THEN Err("MathOverflow", a2)
    ELSE Ok([a2 EXCEPT !.market.total_volume = Unwrap(vol)])

\* provide_liquidity: the pool and volume updates of the market.
provide_liquidity_market(a, amount_per_side, doubled) ==
    LET yes == checked_add(a.market.yes_pool, amount_per_side) IN
    IF ~IsSome(yes) THEN Err("MathOverflow", a)
    ELSE LET a1 == [a EXCEPT !.market.yes_pool = Unwrap(yes)]
             no == checked_add(a1.market.no_pool, amount_per_side)
         IN
    IF ~IsSome(no) THEN Err("MathOverflow", a1)
    ELSE LET a2 == [a1 EXCEPT !.market.no_pool = Unwrap(no)]
             vol == checked_add(a2.market.total_volume, doubled)
         IN
    IF ~IsSome(vol) THEN Err("MathOverflow", a2)
    ELSE Ok([a2 EXCEPT !.market.total_volume = Unwrap(vol)])

\* An update of the market maker that leaves total_volume_provided alone.
provide_liquidity_maker_ExposureOnly(a, total_exposure, doubled) ==
    Ok([a EXCEPT !.market_maker.current_exposure = total_exposure])

\* provide_liquidity: the market maker's exposure and volume counters.
provide_liquidity_maker(a, total_exposure, doubled) ==
    LET a1 == [a EXCEPT !.market_maker.current_exposure = total_exposure]
        vol == checked_add(a1.market_maker.total_volume_provided, doubled)
    IN IF ~IsSome(vol) THEN Err("MathOverflow", a1)
       ELSE Ok([a1 EXCEPT !.market_maker.total_volume_provided = Unwrap(vol)])

\* A position update that records the provider's total but not the stakes.
provide_liquidity_position_TotalOnly(a, u, amount_per_side, doubled) ==
    LET p0 == InitPositionIfNeeded(a.positions[u])
        a0 == [a EXCEPT !.positions[u] = p0]
        inv == checked_add(p0.total_invested, doubled)
    IN
    IF ~IsSome(inv) THEN Err("MathOverflow", a0)
    ELSE Ok([a0 EXCEPT !.positions[u].total_invested = Unwrap(inv)])

\* provide_liquidity: the provider's position.
provide_liquidity_position(a, u, amount_per_side, doubled) ==
    LET p0 == InitPositionIfNeeded(a.positions[u])
        a0 == [a EXCEPT !.positions[u] = p0]
        yes == checked_add(p0.yes_amount, amount_per_side)
    IN
    IF ~IsSome(yes) THEN Err("MathOverflow", a0)
    ELSE LET a1 == [a0 EXCEPT !.positions[u].yes_amount = Unwrap(yes)]
             no == checked_add(p0.no_amount, amount_per_side)
         IN
    IF ~IsSome(no) THEN Err("MathOverflow", a1)
    ELSE LET a2 == [a1 EXCEPT !.positions[u].no_amount = Unwrap(no)]
             inv == checked_add(p0.total_invested, doubled)
         IN
    IF ~IsSome(inv) THEN Err("MathOverflow", a2)
    ELSE Ok([a2 EXCEPT !.positions[u].total_invested = Unwrap(inv)])

\* provide_liquidity(ctx, amount_per_side) with `u` the liquidity provider.
provide_liquidity(a, u, amount_per_side, overflow_checks) ==
    IF ~a.market_maker.exists THEN Err("AccountNotInitialized", a)
    ELSE IF ~a.market_maker.is_active THEN Err("MarketNotActive", a)
    ELSE LET twice == unchecked_mul(amount_per_side, 2, overflow_checks) IN
    IF ~IsSome(twice) THEN Err("Panic", a)
    ELSE LET doubled == Unwrap(twice)
             sum == unchecked_add(a.market_maker.current_exposure, doubled,
                                  overflow_checks)
         IN
    IF ~IsSome(sum) THEN Err("Panic", a)
    ELSE LET total_exposure == Unwrap(sum) IN
    IF ~ExposureAllowed(total_exposure, a.market_maker.max_exposure)
    THEN Err("BetTooLarge", a)
    ELSE LET t1 == token_transfer(a.user_token_account[u], a.yes_vault,
                                  amount_per_side)
             a1 == [a EXCEPT !.user_token_account[u] = @ - amount_per_side,
                             !.yes_vault = @ + amount_per_side]
         IN
    IF t1 # "Ok" THEN Err(t1, a)
    ELSE LET t2 == token_transfer(a1.user_token_account[u], a1.no_vault,
                                  amount_per_side)
             a2 == [a1 EXCEPT !.user_token_account[u] = @ - amount_per_side,
                              !.no_vault = @ + amount_per_side]
             r1 == provide_liquidity_market(a2, amount_per_side, doubled)
         IN
    IF t2 # "Ok" THEN Err(t2, a1)
    ELSE IF r1.res # "Ok" THEN r1
    ELSE LET r2 == provide_liquidity_maker(r1.st, total_exposure, doubled) IN
    IF r2.res # "Ok" THEN r2
    ELSE provide_liquidity_position(r2.st, u, amount_per_side, doubled)

\* ----------------------------------------------------- consolidate_funds
\* The authority constraint of ConsolidateFunds.
ConsolidateConstraint(fc, authority) ==
    IF authority = fc.authority THEN "Ok" ELSE "UnauthorizedResolver"

\* Mutant: the sweep also resets the market's fee counter.
consolidate_funds_ResetsFees(a, authority) ==
    LET c == ConsolidateConstraint(a.fee_collector, authority) IN
    IF c # "Ok" THEN Err(c, a)
    ELSE IF ~a.market.is_resolved THEN Err("MarketNotResolved", a)
    ELSE LET fee_vault_balance == a.fee_vault IN
    IF fee_vault_balance > 0
    THEN LET t == token_transfer(a.fee_vault, a.treasury_account,
                                 fee_vault_balance)
             a1 == [a EXCEPT !.fee_vault = @ - fee_vault_balance,
                             !.treasury_account = @ + fee_vault_balance,
                             !.market.total_fees_collected = 0]
             sum == checked_add(a.fee_collector.total_fees_collected,
                                fee_vault_balance)
         IN IF t # "Ok" THEN Err(t, a)
            ELSE IF ~IsSome(sum) THEN Err("MathOverflow", a1)
            ELSE Ok([a1 EXCEPT !.fee_collector.total_fees_collected = Unwrap(sum)])
    ELSE Ok(a)

\* A sweep that does not wait for the resolution of the market.
consolidate_funds_BeforeResolution(a, authority) ==
    LET c == ConsolidateConstraint(a.fee_collector, authority) IN
    IF c # "Ok" THEN Err(c, a)
    ELSE LET fee_vault_balance == a.fee_vault IN
    IF fee_vault_balance > 0
    THEN LET t == token_transfer(a.fee_vault, a.treasury_account,
                                 fee_vault_balance)
             a1 == [a EXCEPT !.fee_vault = @ - fee_vault_balance,
                             !.treasury_account = @ + fee_vault_balance]
             sum == checked_add(a.fee_collector.total_fees_collected,
                                fee_vault_balance)
         IN IF t # "Ok" THEN Err(t, a)
            ELSE IF ~IsSome(sum) THEN Err("MathOverflow", a1)
            ELSE Ok([a1 EXCEPT !.fee_collector.total_fees_collected = Unwrap(sum)])
    ELSE Ok(a)

\* consolidate_funds(ctx)
consolidate_funds(a, authority) ==
    LET c == ConsolidateConstraint(a.fee_collector, authority) IN
    IF c # "Ok" THEN Err(c, a)
    ELSE IF ~a.market.is_resolved THEN Err("MarketNotResolved", a)
    ELSE LET fee_vault_balance == a.fee_vault IN
    IF fee_vault_balance > 0
    THEN LET t == token_transfer(a.fee_vault, a.treasury_account,
                                 fee_vault_balance)
             a1 == [a EXCEPT !.fee_vault = @ - fee_vault_balance,
                             !.treasury_account = @ + fee_vault_balance]
             sum == checked_add(a.fee_collector.total_fees_collected,
                                fee_vault_balance)
         IN IF t # "Ok" THEN Err(t, a)
            ELSE IF ~IsSome(sum) THEN Err("MathOverflow", a1)
            ELSE Ok([a1 EXCEPT !.fee_collector.total_fees_collected = Unwrap(sum)])
    ELSE Ok(a)

\* ------------------------------------------------------------- actions
\* Mutant: the accounts are written back as the handler left them, whatever
\* it returned.
Committed_Partial(r, before) == r.st

\* What reaches the accounts: the handler's result when it returned Ok,
\* the accounts as they were before the instruction otherwise.
Committed(r, before) == IF r.res = "Ok" THEN r.st ELSE before

Store(s) ==
    /\ market' = s.market
    /\ positions' = s.positions
    /\ market_maker' = s.market_maker
    /\ yes_vault' = s.yes_vault
    /\ no_vault' = s.no_vault
    /\ fee_vault' = s.fee_vault
    /\ user_token_account' = s.user_token_account
    /\ treasury_account' = s.treasury_account
    /\ fee_collector' = s.fee_collector

BetAmounts == {0, MinBetAmount - 1, MinBetAmount, MaxBetAmount, MaxBetAmount + 1}
BigLiquidity == (U64_MAX - MinBetAmount) \div 2
HalfRange == (U64_MAX + 1) \div 2
LiquidityAmounts == {0, 1, BigLiquidity, HalfRange}
MaxExposures == {2 * BigLiquidity + 1}
DefaultSpreadBps == 500

\* Whether the program was built with overflow checks: the choice shows
\* only when the exposure arithmetic of provide_liquidity overflows.
BuildOutcomes(amount_per_side) ==
    IF amount_per_side * 2 + market_maker.current_exposure > U64_MAX
    THEN BOOLEAN ELSE {TRUE}

PlaceBet(u, amount, outcome) ==
    LET r == place_bet(Accounts, u, amount, outcome, now) IN
    /\ r.res = "Ok" => deposits < MaxDeposits
    /\ Store(Committed(r, Accounts))
    /\ deposits' = IF r.res = "Ok" THEN deposits + 1 ELSE deposits
    /\ last' = Instruction("place_bet", u, amount, outcome, 0, r.res, 0, 0)
    /\ UNCHANGED <<now, call>>

ResolveWithExternalPrice(u, final_price) ==
    LET r == resolve_with_external_price(Accounts, u, final_price, now) IN
    /\ Store(Committed(r, Accounts))
    /\ last' = Instruction("resolve_with_external_price", u, 0, "Yes",
                           final_price, r.res, 0, 0)
    /\ UNCHANGED <<now, deposits, call>>

ResolveMarket(u, feed) ==
    LET r == resolve_market(Accounts, u, feed, now) IN
    /\ Store(Committed(r, Accounts))
    /\ last' = Instruction("resolve_market", u, 0, "Yes",
                           IF IsSome(feed) THEN Unwrap(feed) ELSE 0, r.res, 0, 0)
    /\ UNCHANGED <<now, deposits, call>>

ClaimWinnings(u) ==
    LET r == claim_winnings(Accounts, u)
        s == Committed(r, Accounts)
        win == IF market.winning_outcome = Some(0)
               THEN yes_vault - s.yes_vault ELSE no_vault - s.no_vault
        lose == IF market.winning_outcome = Some(0)
                THEN no_vault - s.no_vault ELSE yes_vault - s.yes_vault
    IN
    /\ Store(s)
    /\ last' = Instruction("claim_winnings", u, 0, "Yes", 0, r.res, win, lose)
    /\ UNCHANGED <<now, deposits, call>>

InitializeMarketMaker(u, max_exposure) ==
    LET r == initialize_market_maker(Accounts, DefaultSpreadBps, max_exposure) IN
    /\ Store(Committed(r, Accounts))
    /\ last' = Instruction("initialize_market_maker", u, max_exposure, "Yes", 0,
                           r.res, 0, 0)
    /\ UNCHANGED <<now, deposits, call>>

ProvideLiquidity(u, amount_per_side, overflow_checks) ==
    LET r == provide_liquidity(Accounts, u, amount_per_side, overflow_checks) IN
    /\ r.res = "Ok" => deposits < MaxDeposits
    /\ Store(Committed(r, Accounts))
    /\ deposits' = IF r.res = "Ok" THEN deposits + 1 ELSE deposits
    /\ last' = Instruction("provide_liquidity", u, amount_per_side, "Yes", 0,
                           r.res, 0, 0)
    /\ UNCHANGED <<now, call>>

ConsolidateFunds(u) ==
    LET r == consolidate_funds(Accounts, u) IN
    /\ Store(Committed(r, Accounts))
    /\ last' = Instruction("consolidate_funds", u, 0, "Yes", 0, r.res, 0, 0)
    /\ UNCHANGED <<now, deposits, call>>

\* The clock moves on to the settlement time.
AdvanceClock ==
    /\ \E t \in {market.settle_time} :
           t > now /\ now' = t
    /\ UNCHANGED <<market, positions, market_maker, yes_vault, no_vault,
                   fee_vault, user_token_account, treasury_account,
                   fee_collector, deposits, last, call>>

Next ==
    \/ \E u \in Users, amount \in BetAmounts, outcome \in Outcomes :
           PlaceBet(u, amount, outcome)
    \/ \E u \in Users, p \in Prices : ResolveWithExternalPrice(u, p)
    \/ \E u \in Users, feed \in {None} \cup {Some(p) : p \in Prices} :
           ResolveMarket(u, feed)
    \/ \E u \in Users : ClaimWinnings(u)
    \/ \E u \in Users, e \in MaxExposures : InitializeMarketMaker(u, e)
    \/ \E u \in Users, amount \in LiquidityAmounts :
           \E oc \in BuildOutcomes(amount) : ProvideLiquidity(u, amount, oc)
    \/ \E u \in Users : ConsolidateFunds(u)
    \/ AdvanceClock

Spec == Init /\ [][Next]_vars

\* The same program with participants whose funds never run out.
SpecFunded == InitFunded /\ [][Next]_vars

\* ------------------------------------------------------------- claims
\* A step of the instruction `op` (the clock does not move during one).
StepOf(op) == last'.op = op /\ now' = now

AccountVars ==
    <<market, positions, market_maker, yes_vault, no_vault, fee_vault,
      user_token_account, treasury_account, fee_collector>>

\* The winning side's stake, pool and vault as a claim by `u` reads them.
WinnerIsYes == market.winning_outcome = Some(0)
WinningStake(u) ==
    IF WinnerIsYes THEN positions[u].yes_amount ELSE positions[u].no_amount
WinningPool == IF WinnerIsYes THEN market.yes_pool ELSE market.no_pool
LosingPool == IF WinnerIsYes THEN market.no_pool ELSE market.yes_pool
WinVaultPaid == IF WinnerIsYes THEN yes_vault - yes_vault' ELSE no_vault - no_vault'
LoseVaultPaid == IF WinnerIsYes THEN no_vault - no_vault' ELSE yes_vault - yes_vault'
NothingTransferred ==
    /\ yes_vault' = yes_vault
    /\ no_vault' = no_vault
    /\ fee_vault' = fee_vault
    /\ user_token_account' = user_token_account

\* C1: a position is paid at most once. The claimed flag never goes back
\* from true to false, and a claim_winnings on a position that is already
\* claimed fails with AlreadyClaimed and transfers nothing.
C1_PaidAtMostOnce ==
    [][\A u \in Users :
        /\ positions[u].claimed => positions'[u].claimed
        /\ (StepOf("claim_winnings") /\ last'.who = u /\ positions[u].claimed)
             => /\ last'.res = "AlreadyClaimed"
                /\ NothingTransferred]_vars

\* C1 witness: a second claim on a claimed position has been rejected.
C1_Witness ==
    /\ last.op = "claim_winnings"
    /\ last.res = "AlreadyClaimed"
    /\ positions[last.who].claimed

\* C2 (as claimed): once the market is resolved no instruction adds to
\* yes_pool or no_pool, and every place_bet and provide_liquidity is rejected.
C2_ResolvedPoolsFrozen ==
    [][market.is_resolved =>
        /\ market'.yes_pool = market.yes_pool
        /\ market'.no_pool = market.no_pool
        /\ (StepOf("place_bet") \/ StepOf("provide_liquidity"))
             => last'.res # "Ok"]_vars

\* C3: a claim by an unclaimed position with a stake on the winning side of
\* a resolved market pays stake + floor(stake * losing_pool / winning_pool),
\* the stake out of the winning-side vault and the profit out of the
\* losing-side vault; with an empty losing pool it pays the stake alone.
C3_ClaimPaysStakePlusProfit ==
    [][\A u \in Users :
        (StepOf("claim_winnings") /\ last'.who = u /\ market.is_resolved
           /\ positions[u].exists /\ ~positions[u].claimed /\ WinningStake(u) > 0)
        => LET stake == WinningStake(u)
               profit == (stake * LosingPool) \div WinningPool
           IN /\ last'.res = "Ok"
              /\ WinVaultPaid = stake
              /\ LoseVaultPaid = profit
              /\ user_token_account'[u] = user_token_account[u] + stake + profit
              /\ LosingPool = 0 => user_token_account'[u] = user_token_account[u] + stake
              /\ positions'[u].claimed]_vars

\* C3 witness: a winner has been paid its stake and a profit.
C3_Witness ==
    /\ last.op = "claim_winnings"
    /\ last.res = "Ok"
    /\ last.paid_win > 0
    /\ last.paid_lose > 0

\* C4: no partial resolution. is_resolved, a stored winning_outcome, a
\* stored final_price and the status Resolved go together in every state.
C4_ResolutionIsWhole ==
    /\ market.is_resolved <=> IsSome(market.winning_outcome)
    /\ market.is_resolved <=> IsSome(market.final_price)
    /\ market.is_resolved <=> market.market_status = "Resolved"

\* C4 witness: the market has been resolved.
C4_Witness == market.is_resolved /\ market.market_status = "Resolved"

IsResolveStep == StepOf("resolve_with_external_price") \/ StepOf("resolve_market")

PricesAround(target_price) == {target_price - 1000, target_price, target_price + 1000}

\* C6: a successful resolution stores the final price it was given and sets
\* winning_outcome to YES (0) if that price differs from target_price and to
\* NO (1) if it equals it; and where a resolution succeeds, either resolve
\* path does so for every final price below, at and above target_price.
C6_ResolutionRule ==
    [][(IsResolveStep /\ last'.res = "Ok")
        => /\ market'.final_price = Some(last'.price)
           /\ last'.price # market.target_price => market'.winning_outcome = Some(0)
           /\ last'.price = market.target_price => market'.winning_outcome = Some(1)
           /\ market'.target_price = market.target_price
           /\ \A p \in PricesAround(market.target_price) :
                \A r \in {resolve_with_external_price(Accounts, last'.who, p, now),
                          resolve_market(Accounts, last'.who, Some(p), now)} :
                    /\ r.res = "Ok"
                    /\ r.st.market.final_price = Some(p)
                    /\ r.st.market.winning_outcome
                         = Some(IF p # market.target_price THEN 0 ELSE 1)]_vars

\* C6 witness: the market has been resolved by a price below target_price.
C6_Witness ==
    /\ last.op \in {"resolve_with_external_price", "resolve_market"}
    /\ last.res = "Ok"
    /\ last.price < market.target_price
    /\ market.winning_outcome = Some(0)

\* The acceptance conditions of a bet of `amount`, as the specification
\* lists them.
BetGuardsHold(amount) ==
    /\ ~market.is_resolved
    /\ now < market.settle_time
    /\ ~market.emergency_paused
    /\ market.market_status \in {"Active", "PendingLiquidity"}
    /\ market.min_bet_amount <= amount
    /\ amount <= market.max_bet_amount

BetRejections ==
    {"MarketAlreadyResolved", "MarketClosed", "MarketPaused", "MarketNotActive",
     "InvalidAmount", "BetTooSmall", "BetTooLarge"}

\* C7: place_bet is accepted only when the market is unresolved, the time is
\* before settle_time, the market is not paused, its status is Active or
\* PendingLiquidity and the amount lies within [min_bet_amount,
\* max_bet_amount]; a bet that fails a guard is rejected with the error of a
\* guard it fails and changes neither the market nor the position.
C7_BetGuards ==
    [][StepOf("place_bet") =>
        LET res == last'.res IN
        /\ res = "Ok" => BetGuardsHold(last'.amount)
        /\ market.is_resolved => res = "MarketAlreadyResolved"
        /\ (market.is_resolved \/ now >= market.settle_time
               \/ market.emergency_paused
               \/ market.market_status \notin {"Active", "PendingLiquidity"})
             => res \in BetRejections
        /\ res = "MarketAlreadyResolved" => market.is_resolved
        /\ res = "MarketClosed" => now >= market.settle_time
        /\ res = "MarketPaused" => market.emergency_paused
        /\ res = "MarketNotActive"
             => market.market_status \notin {"Active", "PendingLiquidity"}
        /\ res \in {"InvalidAmount", "BetTooSmall"}
             => last'.amount < market.min_bet_amount
        /\ res = "BetTooLarge" => last'.amount > market.max_bet_amount
        /\ res # "Ok" => /\ market' = market
                         /\ positions' = positions
                         /\ NothingTransferred]_vars

\* C7 witness: a bet has been rejected by an amount guard.
C7_Witness ==
    /\ last.op = "place_bet"
    /\ last.res \in {"BetTooSmall", "BetTooLarge"}
    /\ ~market.is_resolved

\* C8: an accepted place_bet(amount, side) with (fee, net) =
\* calculate_fee(amount, fee_bps) adds net to the pool of the side and to the
\* bettor's stake on it, fee to total_fees_collected and the pre-fee amount
\* to total_volume and to the position's total_invested; the other side's
\* pool and stake stay as they were.
C8_BetAccounting ==
    [][(StepOf("place_bet") /\ last'.res = "Ok")
        => LET u == last'.who
               amount == last'.amount
               side == last'.side
               other == IF side = "Yes" THEN "No" ELSE "Yes"
               cf == Unwrap(calculate_fee(amount, market.fee_bps))
               fee == cf[1]
               net == cf[2]
           IN /\ PoolOf(market', side) = PoolOf(market, side) + net
              /\ StakeOf(positions'[u], side) = StakeOf(positions[u], side) + net
              /\ market'.total_fees_collected = market.total_fees_collected + fee
              /\ market'.total_volume = market.total_volume + amount
              /\ positions'[u].total_invested = positions[u].total_invested + amount
              /\ PoolOf(market', other) = PoolOf(market, other)
              /\ StakeOf(positions'[u], other) = StakeOf(positions[u], other)]_vars

\* C8 witness: a bet has been accepted on top of an earlier deposit of the
\* same participant, with a fee taken.
C8_Witness ==
    /\ last.op = "place_bet"
    /\ last.res = "Ok"
    /\ positions[last.who].total_invested > last.amount
    /\ market.total_fees_collected > 0

\* Whether one of the checked additions of a bet of `amount` on `side` by
\* `u` does not fit in 64 bits.
BetAdditionOverflows(u, amount, side) ==
    LET fee == (amount * market.fee_bps) \div BPS_DENOMINATOR
        net == amount - fee
    IN \/ market.total_fees_collected + fee > U64_MAX
       \/ PoolOf(market, side) + net > U64_MAX
       \/ StakeOf(positions[u], side) + net > U64_MAX
       \/ positions[u].total_invested + amount > U64_MAX
       \/ market.total_volume + amount > U64_MAX

\* C9: place_bet is all-or-nothing. A bet one of whose checked additions
\* overflows is never accepted; a bet rejected with MathOverflow passed the
\* guards and has an overflowing addition, and it leaves every field of the
\* market and the position and every token balance as it was; a bet ends
\* in no other way than accepted, rejected by a guard, by a transfer or
\* with MathOverflow.
C9_BetAllOrNothing ==
    [][StepOf("place_bet") =>
        LET overflows ==
              BetAdditionOverflows(last'.who, last'.amount, last'.side)
        IN /\ last'.res = "Ok" => ~overflows
           /\ last'.res = "MathOverflow"
                => /\ BetGuardsHold(last'.amount)
                   /\ overflows
                   /\ UNCHANGED AccountVars
           /\ last'.res \in BetRejections
                  \cup {"Ok", "MathOverflow", "InsufficientFunds", "TokenOverflow"}]_vars

\* C9 witness: a bet has failed with MathOverflow after its transfers.
C9_Witness ==
    /\ last.op = "place_bet"
    /\ last.res = "MathOverflow"
    /\ market.total_volume + MaxBetAmount > U64_MAX

\* C10: a claim_winnings on an unresolved market, or by a position with no
\* stake on either side, is rejected (MarketNotResolved, resp. NoPosition),
\* pays nothing and leaves the position unclaimed.
C10_ClaimRejected ==
    [][\A u \in Users :
        (StepOf("claim_winnings") /\ last'.who = u
           /\ (~market.is_resolved
               \/ (positions[u].yes_amount = 0 /\ positions[u].no_amount = 0)))
        => /\ last'.res # "Ok"
           /\ NothingTransferred
           /\ positions' = positions
           /\ ~positions'[u].claimed
           /\ positions[u].exists
                => last'.res = IF ~market.is_resolved
                               THEN "MarketNotResolved" ELSE "NoPosition"]_vars

\* C10 witness: a claim by a position without stake has been rejected on a
\* resolved market.
C10_Witness ==
    /\ last.op = "claim_winnings"
    /\ last.res = "NoPosition"
    /\ market.is_resolved
    /\ positions[last.who].exists

\* C11: on a resolved market, a claim_winnings by an unclaimed position that
\* holds stake but none on the winning side succeeds, moves no tokens out of
\* either vault and sets claimed.
C11_LoserClaimsNothing ==
    [][\A u \in Users :
        (StepOf("claim_winnings") /\ last'.who = u /\ market.is_resolved
           /\ positions[u].exists /\ ~positions[u].claimed
           /\ positions[u].yes_amount + positions[u].no_amount > 0
           /\ WinningStake(u) = 0)
        => /\ last'.res = "Ok"
           /\ NothingTransferred
           /\ positions'[u].claimed
           /\ positions'[u].yes_amount = positions[u].yes_amount
           /\ positions'[u].no_amount = positions[u].no_amount]_vars

\* C11 witness: a position with stake on the losing side only has claimed.
C11_Witness ==
    /\ last.op = "claim_winnings"
    /\ last.res = "Ok"
    /\ last.paid_win = 0
    /\ last.paid_lose = 0
    /\ positions[last.who].claimed
    /\ WinningStake(last.who) = 0
    /\ positions[last.who].yes_amount + positions[last.who].no_amount > 0

\* C12: once a position's claimed flag is true, its yes_amount and no_amount
\* never change again, whatever instruction follows.
C12_ClaimedStakesFrozen ==
    [][\A u \in Users :
        positions[u].claimed
        => /\ positions'[u].yes_amount = positions[u].yes_amount
           /\ positions'[u].no_amount = positions[u].no_amount]_vars

\* C13: in every reachable state the market maker's current_exposure is at
\* most its max_exposure.
C13_ExposureWithinLimit ==
    market_maker.current_exposure <= market_maker.max_exposure

\* C13 witness: with the exposure one short of the limit, a further
\* provision has been turned down by the exposure check.
C13_Witness ==
    /\ last.op = "provide_liquidity"
    /\ last.res = "BetTooLarge"
    /\ market_maker.exists
    /\ market_maker.current_exposure = 2 * BigLiquidity
    /\ market_maker.current_exposure + 1 = market_maker.max_exposure

\* C14: a provide_liquidity(amount_per_side) with current_exposure +
\* 2 * amount_per_side above max_exposure is rejected with
\* MaxExposureExceeded and leaves the pools, the market maker and the
\* positions unchanged.
C14_ExposureExceededRejected ==
    [][(StepOf("provide_liquidity") /\ market_maker.exists
          /\ market_maker.current_exposure + 2 * last'.amount
               > market_maker.max_exposure)
        => /\ last'.res = "MaxExposureExceeded"
           /\ market' = market
           /\ market_maker' = market_maker
           /\ positions' = positions]_vars

\* C14 as the code behaves: such a provision is rejected and changes
\* nothing; the error is BetTooLarge when the exposure sum fits in 64 bits.
C14_RejectedAsBetTooLarge ==
    [][(StepOf("provide_liquidity") /\ market_maker.exists
          /\ market_maker.current_exposure + 2 * last'.amount
               > market_maker.max_exposure)
        => /\ last'.res # "Ok"
           /\ UNCHANGED AccountVars
           /\ market_maker.current_exposure + 2 * last'.amount <= U64_MAX
                => last'.res = "BetTooLarge"]_vars

\* C15: an accepted provide_liquidity(amount_per_side) adds amount_per_side
\* to yes_pool and to no_pool, so their difference stays, adds it to the
\* yes_amount and the no_amount of the provider's position, adds twice the
\* amount to current_exposure, total_volume_provided and the market's
\* total_volume, and charges no fee.
C15_LiquidityAccounting ==
    [][(StepOf("provide_liquidity") /\ last'.res = "Ok")
        => LET u == last'.who
               amount == last'.amount
           IN /\ market'.yes_pool = market.yes_pool + amount
              /\ market'.no_pool = market.no_pool + amount
              /\ market'.yes_pool - market'.no_pool
                   = market.yes_pool - market.no_pool
              /\ positions'[u].yes_amount = positions[u].yes_amount + amount
              /\ positions'[u].no_amount = positions[u].no_amount + amount
              /\ market_maker'.current_exposure
                   = market_maker.current_exposure + 2 * amount
              /\ market_maker'.total_volume_provided
                   = market_maker.total_volume_provided + 2 * amount
              /\ market'.total_volume = market.total_volume + 2 * amount
              /\ market'.total_fees_collected = market.total_fees_collected
              /\ fee_vault' = fee_vault
              /\ yes_vault' = yes_vault + amount
              /\ no_vault' = no_vault + amount
              /\ user_token_account'[u] = user_token_account[u] - 2 * amount]_vars

\* C15 witness: liquidity has been accepted on a market with unequal pools,
\* on top of an earlier provision.
C15_Witness ==
    /\ last.op = "provide_liquidity"
    /\ last.res = "Ok"
    /\ last.amount > 0
    /\ market.yes_pool # market.no_pool
    /\ market_maker.current_exposure > 2 * last.amount

\* C16: total_volume and total_fees_collected never decrease, and yes_pool
\* and no_pool never decrease except in a claim_winnings step.
C16_CountersMonotone ==
    [][/\ market'.total_volume >= market.total_volume
       /\ market'.total_fees_collected >= market.total_fees_collected
       /\ (market'.yes_pool < market.yes_pool \/ market'.no_pool < market.no_pool)
            => StepOf("claim_winnings")]_vars

\* C16 witness: after bets with a fee, a winner has been paid out of both
\* vaults and the fee vault has been swept.
C16_Witness ==
    /\ last.op = "consolidate_funds"
    /\ last.res = "Ok"
    /\ market.total_fees_collected > 0
    /\ market.total_volume > 0
    /\ treasury_account > 0
    /\ \E u \in Users : positions[u].claimed

\* The bets two participants may submit: <<better, amount, outcome>>.
BetInputs == Users \X BetAmounts \X Outcomes

\* place_bet applied to the accounts `a` with the bet `b`, at the current time.
BetOn(a, b) == place_bet(a, b[1], b[2], b[3], now)

\* What a bet `b` contributes to the pool of `outcome` and to the fees.
NetOf(b) == b[2] - (b[2] * market.fee_bps) \div BPS_DENOMINATOR
FeeOf(b) == (b[2] * market.fee_bps) \div BPS_DENOMINATOR
PoolShare(b, outcome) == IF b[3] = outcome THEN NetOf(b) ELSE 0

\* C17: no bet update is lost. For any two bets that are accepted one after
\* the other in either order, yes_pool, no_pool, total_volume and
\* total_fees_collected end as their values before plus the contributions
\* of both bets, the same for both orders. (The runtime serialises the
\* transactions that write one Market account.)
C17_NoLostBet ==
    \A b1 \in BetInputs :
      LET r1 == BetOn(Accounts, b1) IN
      r1.res = "Ok" =>
        \A b2 \in BetInputs :
        LET r2 == BetOn(Accounts, b2) IN
        r2.res = "Ok" =>
        LET r12 == BetOn(r1.st, b2)
            r21 == BetOn(r2.st, b1)
        IN (r12.res = "Ok" /\ r21.res = "Ok")
           => /\ r12.st.market = r21.st.market
              /\ r12.st.market.yes_pool
                   = market.yes_pool + PoolShare(b1, "Yes") + PoolShare(b2, "Yes")
              /\ r12.st.market.no_pool
                   = market.no_pool + PoolShare(b1, "No") + PoolShare(b2, "No")
              /\ r12.st.market.total_volume = market.total_volume + b1[2] + b2[2]
              /\ r12.st.market.total_fees_collected
                   = market.total_fees_collected + FeeOf(b1) + FeeOf(b2)

\* C17 witness: two participants have bet on an open market that already
\* had both pools filled, and two further bets on opposite sides are
\* acceptable in both orders.
C17_Witness ==
    /\ last.op = "place_bet"
    /\ last.res = "Ok"
    /\ deposits >= 2
    /\ market.yes_pool > 0
    /\ market.no_pool > 0
    /\ \E b1, b2 \in BetInputs :
          /\ b1[3] # b2[3]
          /\ BetOn(Accounts, b1).res = "Ok"
          /\ BetOn(Accounts, b2).res = "Ok"
          /\ BetOn(BetOn(Accounts, b1).st, b2).res = "Ok"
          /\ BetOn(BetOn(Accounts, b2).st, b1).res = "Ok"

\* ------------------------------------- pricing functions of the Market
saturating_add(a, b) == IF a + b <= U64_MAX THEN a + b ELSE U64_MAX
saturating_sub(a, b) == IF a >= b THEN a - b ELSE 0
wrapping_sub(a, b) == (a - b) % (U64_MAX + 1)

\* `x as u64` of a u128 value: the low 64 bits.
as_u64(x) == x % (U64_MAX + 1)

\* Unchecked u64 `-`: with overflow checks compiled in an underflow
\* panics (None), without them the result wraps.
unchecked_sub(x, y, overflow_checks) ==
    IF x >= y THEN Some(x - y)
    ELSE IF overflow_checks THEN None
    ELSE Some(wrapping_sub(x, y))

\* The pools of a market seen by the functions below.
Pools(yes_pool, no_pool) == [yes_pool |-> yes_pool, no_pool |-> no_pool]

\* A total pot that wraps around instead of saturating.
get_total_pot_Wrapping(m) == wrapping_add(m.yes_pool, m.no_pool)

\* Market::get_total_pot(&self) -> u64
get_total_pot(m) == saturating_add(m.yes_pool, m.no_pool)

\* Market::get_spot_prices(&self) -> (yes_bps, no_bps). The product is
\* formed in u128, where it cannot overflow.
get_spot_prices(m) ==
    LET total == get_total_pot(m) IN
    IF total = 0 THEN <<5000, 5000>>
    ELSE LET yes == as_u64((m.yes_pool * 10000) \div total)
             no == saturating_sub(10000, yes)
         IN <<yes, no>>

\* Market::calculate_price_impact(&self, amount, side) -> Result<u64>. All
\* sums and products are u128 values of 64-bit operands, so checked_add
\* cannot fail; the second division has no guard against a zero divisor.
calculate_price_impact(m, amount, side) ==
    LET y == m.yes_pool
        n == m.no_pool
        before == IF y + n = 0 THEN 5000 ELSE (y * 10000) \div (y + n)
        y2 == IF side = "Yes" THEN y + amount ELSE y
        n2 == IF side = "No" THEN n + amount ELSE n
    IN IF y2 + n2 = 0 THEN Failure("Panic")
       ELSE LET after == (y2 * 10000) \div (y2 + n2)
                impact == IF after > before THEN after - before
                          ELSE before - after
            IN IF impact > U64_MAX THEN Failure("MathOverflow")
               ELSE Value(impact)

MIN_PROFIT_BPS == 100

\* An arbitrage signal that fires at the threshold already.
calculate_arbitrage_opportunity_AtThreshold(m, ext_yes_bps, overflow_checks) ==
    LET p == get_spot_prices(m)
        yes_bps == p[1]
        no_bps == p[2]
    IN IF ext_yes_bps >= yes_bps + MIN_PROFIT_BPS
       THEN Value(Some(<<"Yes", ext_yes_bps - yes_bps>>))
       ELSE LET d == unchecked_sub(10000, ext_yes_bps, overflow_checks) IN
            IF ~IsSome(d) THEN Failure("Panic")
            ELSE IF Unwrap(d) >= no_bps + MIN_PROFIT_BPS
            THEN Value(Some(<<"No", Unwrap(d) - no_bps>>))
            ELSE Value(None)

\* Market::calculate_arbitrage_opportunity(&self, ext_yes_bps)
\*   -> Option<(Outcome, u64)>. `10_000 - ext_yes_bps` is unchecked.
calculate_arbitrage_opportunity(m, ext_yes_bps, overflow_checks) ==
    LET p == get_spot_prices(m)
        yes_bps == p[1]
        no_bps == p[2]
    IN IF ext_yes_bps > yes_bps + MIN_PROFIT_BPS
       THEN Value(Some(<<"Yes", ext_yes_bps - yes_bps>>))
       ELSE LET d == unchecked_sub(10000, ext_yes_bps, overflow_checks) IN
            IF ~IsSome(d) THEN Failure("Panic")
            ELSE IF Unwrap(d) > no_bps + MIN_PROFIT_BPS
            THEN Value(Some(<<"No", Unwrap(d) - no_bps>>))
            ELSE Value(None)

\* An expected payout that leaves the new stake out of the winning pool.
get_expected_payout_OldPool(m, amount, side) ==
    LET win_pool == IF side = "Yes" THEN m.yes_pool ELSE m.no_pool
        lose_pool == IF side = "Yes" THEN m.no_pool ELSE m.yes_pool
    IN IF win_pool = 0
       THEN LET d == checked_mul(amount, 2) IN
            IF IsSome(d) THEN Value(Unwrap(d)) ELSE Failure("MathOverflow")
       ELSE LET t == checked_add(win_pool, lose_pool)
                total_after == IF IsSome(t) THEN checked_add(Unwrap(t), amount)
                               ELSE None
            IN IF ~IsSome(total_after) THEN Failure("MathOverflow")
               ELSE LET prod == checked_mul(amount, Unwrap(total_after)) IN
                    IF ~IsSome(prod) THEN Failure("MathOverflow")
                    ELSE Value(Unwrap(prod) \div win_pool)

\* Market::get_expected_payout(&self, amount, side) -> Result<u64>
get_expected_payout(m, amount, side) ==
    LET win_pool == IF side = "Yes" THEN m.yes_pool ELSE m.no_pool
        lose_pool == IF side = "Yes" THEN m.no_pool ELSE m.yes_pool
    IN IF win_pool = 0
       THEN LET d == checked_mul(amount, 2) IN
            IF IsSome(d) THEN Value(Unwrap(d)) ELSE Failure("MathOverflow")
       ELSE LET t == checked_add(win_pool, lose_pool)
                total_after == IF IsSome(t) THEN checked_add(Unwrap(t), amount)
                               ELSE None
            IN IF ~IsSome(total_after) THEN Failure("MathOverflow")
               ELSE LET prod == checked_mul(amount, Unwrap(total_after))
                        den == checked_add(win_pool, amount)
                    IN IF ~IsSome(prod) \/ ~IsSome(den)
                       THEN Failure("MathOverflow")
                       ELSE Value(Unwrap(prod) \div Unwrap(den))

\* ------------------------------------------------ oracle price guard
\* The range of an i64, scaled like U64_MAX.
I64_MAX == 2^(U64Bits - 1) - 1
I64_MIN == -(2^(U64Bits - 1))

\* Unchecked i64 `-`: with overflow checks compiled in an overflow panics
\* (None), without them the result wraps around in two's complement.
unchecked_sub_i64(x, y, overflow_checks) ==
    IF x - y >= I64_MIN /\ x - y <= I64_MAX THEN Some(x - y)
    ELSE IF overflow_checks THEN None
    ELSE Some(((x - y - I64_MIN) % (U64_MAX + 1)) + I64_MIN)

\* market.oracle_confidence as initialize_market sets it.
DefaultOracleConfidence == 500

\* Market::validate_oracle_price(&self, price_confidence, last_update,
\* current_time) -> Result<()>
validate_oracle_price(m, price_confidence, last_update, current_time, overflow_checks) ==
    IF ~(price_confidence <= m.oracle_confidence)
    THEN Failure("PriceConfidenceTooHigh")
    ELSE LET age == unchecked_sub_i64(current_time, last_update,
                                      overflow_checks)
         IN IF ~IsSome(age) THEN Failure("Panic")
            ELSE IF ~(Unwrap(age) <= 60) THEN Failure("PriceTooStale")
            ELSE Value(<<>>)

\* ------------------------------------- rebalancing of the MarketMaker
\* A rebalance that tops up the larger side.
calculate_rebalance_amounts_Swapped(yes_pool, no_pool) ==
    IF yes_pool > no_pool THEN <<(yes_pool - no_pool) \div 2, 0>>
    ELSE IF no_pool > yes_pool THEN <<0, (no_pool - yes_pool) \div 2>>
    ELSE <<0, 0>>

\* MarketMaker::calculate_rebalance_amounts(&self, yes_pool, no_pool)
\*   -> (yes_needed, no_needed): half the difference of the pools, for the
\* smaller side.
calculate_rebalance_amounts(yes_pool, no_pool) ==
    IF yes_pool < no_pool THEN <<(no_pool - yes_pool) \div 2, 0>>
    ELSE IF no_pool < yes_pool THEN <<0, (yes_pool - no_pool) \div 2>>
    ELSE <<0, 0>>

\* A rebalance signal that fires at the target spread already.
should_rebalance_AtThreshold(mm, yes_pool, no_pool) ==
    LET total == yes_pool + no_pool IN
    IF total = 0 THEN FALSE
    ELSE LET yes_bps == (yes_pool * 10000) \div total
             skew == IF yes_bps > 5000 THEN yes_bps - 5000 ELSE 5000 - yes_bps
         IN skew >= mm.target_spread_bps

\* MarketMaker::should_rebalance(&self, yes_pool, no_pool) -> bool: whether
\* the YES share of the pools, in basis points, is further from 5000 than
\* target_spread_bps.
should_rebalance(mm, yes_pool, no_pool) ==
    LET total == yes_pool + no_pool IN
    IF total = 0 THEN FALSE
    ELSE LET yes_bps == (yes_pool * 10000) \div total
             skew == IF yes_bps > 5000 THEN yes_bps - 5000 ELSE 5000 - yes_bps
         IN skew > mm.target_spread_bps

\* ------------------------------------------------- the pure functions
\* The arguments the pure functions of state.rs are called with.
FeeAmounts ==
    {0, 1, MinBetAmount, MaxBetAmount, U64_MAX \div DefaultFeeBps,
     U64_MAX \div DefaultFeeBps + 1, U64_MAX \div 2, U64_MAX}
FeeRates == {0, 1, DefaultFeeBps, 250, BPS_DENOMINATOR, 2 * BPS_DENOMINATOR}
StakeInputs == {0, 1, MinBetAmount, MaxBetAmount, U64_MAX \div 2, U64_MAX}
PoolInputs == {0, 1, MinBetAmount, MaxBetAmount, U64_MAX \div 2, U64_MAX}

CalculateFee(amount, fee_bps) ==
    LET r == calculate_fee(amount, fee_bps) IN
    /\ call' = Call("calculate_fee", <<amount, fee_bps>>,
                    IF IsSome(r) THEN Value(Unwrap(r))
                    ELSE Failure("MathOverflow"))
    /\ UNCHANGED <<market, positions, market_maker, yes_vault, no_vault,
                   fee_vault, user_token_account, treasury_account,
                   fee_collector, now, deposits, last>>

CalculatePayout(user_stake, winning_pool, losing_pool) ==
    /\ call' = Call("calculate_payout", <<user_stake, winning_pool, losing_pool>>,
                    calculate_payout(user_stake, winning_pool, losing_pool))
    /\ UNCHANGED <<market, positions, market_maker, yes_vault, no_vault,
                   fee_vault, user_token_account, treasury_account,
                   fee_collector, now, deposits, last>>

\* External YES probabilities in basis points; the argument is a u64, so
\* values above 10000 can be passed as well.
ExtInputs == {0, 4899, 4900, 5000, 5100, 5101, 10000, 10050, U64_MAX}

\* Whether the program was built with overflow checks: the choice shows
\* only when `10_000 - ext_yes_bps` underflows.
ArbitrageBuildOutcomes(ext_yes_bps) ==
    IF ext_yes_bps > 10000 THEN BOOLEAN ELSE {TRUE}

\* A call of a &self method of the Market with the given pools.
MarketCall(fn, args, result) ==
    /\ call' = Call(fn, args, result)
    /\ UNCHANGED <<market, positions, market_maker, yes_vault, no_vault,
                   fee_vault, user_token_account, treasury_account,
                   fee_collector, now, deposits, last>>

GetSpotPrices(yes_pool, no_pool) ==
    MarketCall("get_spot_prices", <<yes_pool, no_pool>>,
               Value(get_spot_prices(Pools(yes_pool, no_pool))))

CalculatePriceImpact(yes_pool, no_pool, amount, side) ==
    MarketCall("calculate_price_impact", <<yes_pool, no_pool, amount, side>>,
               calculate_price_impact(Pools(yes_pool, no_pool), amount, side))

CalculateArbitrageOpportunity(yes_pool, no_pool, ext_yes_bps, overflow_checks) ==
    MarketCall("calculate_arbitrage_opportunity",
               <<yes_pool, no_pool, ext_yes_bps>>,
               calculate_arbitrage_opportunity(Pools(yes_pool, no_pool),
                                               ext_yes_bps, overflow_checks))

GetExpectedPayout(yes_pool, no_pool, amount, side) ==
    MarketCall("get_expected_payout", <<yes_pool, no_pool, amount, side>>,
               get_expected_payout(Pools(yes_pool, no_pool), amount, side))

\* Oracle confidences, update times and clock values, the times over the
\* whole i64 range.
ConfidenceInputs ==
    {0, DefaultOracleConfidence, DefaultOracleConfidence + 1, U64_MAX}
UpdateTimes == {I64_MIN, -1, 0, 100, I64_MAX}
ClockTimes == {I64_MIN, 0, 60, 61, 160, 161, I64_MAX}

\* Whether the program was built with overflow checks: the choice shows
\* only when `current_time - last_update` overflows.
OracleBuildOutcomes(last_update, current_time) ==
    IF current_time - last_update \in I64_MIN..I64_MAX
    THEN {TRUE} ELSE BOOLEAN

ValidateOraclePrice(price_confidence, last_update, current_time, overflow_checks) ==
    MarketCall("validate_oracle_price",
               <<price_confidence, last_update, current_time>>,
               validate_oracle_price(
                   [oracle_confidence |-> DefaultOracleConfidence],
                   price_confidence, last_update, current_time,
                   overflow_checks))

\* Pools around an even split, and the spreads of a market maker.
RebalancePools ==
    {0, 1, 1000, 2000, 3000, 4500, 4800, 5000, 5200, 5500, 7000, 8000, 9000,
     10000}
SpreadInputs == {0, DefaultSpreadBps, 2000}

CalculateRebalanceAmounts(yes_pool, no_pool) ==
    MarketCall("calculate_rebalance_amounts", <<yes_pool, no_pool>>,
               Value(calculate_rebalance_amounts(yes_pool, no_pool)))

ShouldRebalance(target_spread_bps, yes_pool, no_pool) ==
    MarketCall("should_rebalance", <<target_spread_bps, yes_pool, no_pool>>,
               Value(should_rebalance([target_spread_bps |-> target_spread_bps],
                                      yes_pool, no_pool)))

NextMath ==
    \/ \E yes_pool, no_pool \in RebalancePools :
           CalculateRebalanceAmounts(yes_pool, no_pool)
    \/ \E target_spread_bps \in SpreadInputs, yes_pool, no_pool \in RebalancePools :
           ShouldRebalance(target_spread_bps, yes_pool, no_pool)
    \/ \E price_confidence \in ConfidenceInputs, last_update \in UpdateTimes,
          current_time \in ClockTimes :
           \E oc \in OracleBuildOutcomes(last_update, current_time) :
               ValidateOraclePrice(price_confidence, last_update,
                                   current_time, oc)
    \/ \E amount \in FeeAmounts, fee_bps \in FeeRates :
           CalculateFee(amount, fee_bps)
    \/ \E user_stake \in StakeInputs, winning_pool, losing_pool \in PoolInputs :
           CalculatePayout(user_stake, winning_pool, losing_pool)
    \/ \E yes_pool, no_pool \in PoolInputs : GetSpotPrices(yes_pool, no_pool)
    \/ \E yes_pool, no_pool \in PoolInputs, amount \in StakeInputs,
          side \in Outcomes :
           CalculatePriceImpact(yes_pool, no_pool, amount, side)
    \/ \E yes_pool, no_pool \in PoolInputs, ext_yes_bps \in ExtInputs :
           \E oc \in ArbitrageBuildOutcomes(ext_yes_bps) :
               CalculateArbitrageOpportunity(yes_pool, no_pool, ext_yes_bps, oc)
    \/ \E yes_pool, no_pool \in PoolInputs, amount \in StakeInputs,
          side \in Outcomes :
           GetExpectedPayout(yes_pool, no_pool, amount, side)

\* The pure functions called with arguments from the sets above.
SpecMath == Init /\ [][NextMath]_vars

\* C18: whenever calculate_fee succeeds, the fee and the amount after the
\* fee add up to the amount exactly, and the fee is at most the amount.
C18_FeeSplitsAmount ==
    (call.fn = "calculate_fee" /\ call.result.res = "Ok")
    => /\ call.result.val[1] + call.result.val[2] = call.args[1]
       /\ call.result.val[1] <= call.args[1]

\* A successful call that takes a fee and leaves a remainder.
C18_Witness ==
    /\ call.fn = "calculate_fee" /\ call.result.res = "Ok"
    /\ call.result.val[1] > 0 /\ call.result.val[2] > 0

\* C19: for every 64-bit amount and every fee rate from 0 to 10000,
\* calculate_fee succeeds and returns floor(amount * fee_bps / 10000) as the
\* fee, the product being formed without overflow.
C19_FeeNeverOverflows ==
    (call.fn = "calculate_fee" /\ call.args[2] <= BPS_DENOMINATOR)
    => /\ call.result.res = "Ok"
       /\ call.result.val[1] = (call.args[1] * call.args[2]) \div BPS_DENOMINATOR

\* C19, as the code behaves: with a fee rate from 0 to 10000 the call
\* succeeds exactly when amount * fee_bps fits in 64 bits, and then returns
\* the floor; otherwise it fails with MathOverflow.
C19_FeeOverflowsInU64 ==
    (call.fn = "calculate_fee" /\ call.args[2] <= BPS_DENOMINATOR)
    => IF call.args[1] * call.args[2] <= U64_MAX
       THEN /\ call.result.res = "Ok"
            /\ call.result.val[1]
                 = (call.args[1] * call.args[2]) \div BPS_DENOMINATOR
       ELSE call.result.res = "MathOverflow"

\* C20: calculate_payout(stake, winning_pool, losing_pool) fails with
\* InvalidPool when winning_pool is 0; returns the stake when winning_pool
\* is positive and losing_pool is 0; and otherwise, when it succeeds,
\* returns floor(stake * (winning_pool + losing_pool) / winning_pool).
C20_PayoutCases ==
    call.fn = "calculate_payout" =>
        LET user_stake == call.args[1]
            winning_pool == call.args[2]
            losing_pool == call.args[3]
        IN /\ winning_pool = 0 => call.result = Failure("InvalidPool")
           /\ (winning_pool > 0 /\ losing_pool = 0)
                  => call.result = Value(user_stake)
           /\ (winning_pool > 0 /\ losing_pool > 0 /\ call.result.res = "Ok")
                  => call.result.val
                       = (user_stake * (winning_pool + losing_pool))
                             \div winning_pool

\* A successful payout above the stake whose quotient was rounded down.
C20_Witness ==
    /\ call.fn = "calculate_payout" /\ call.result.res = "Ok"
    /\ call.args[2] > 0 /\ call.args[3] > 0
    /\ call.result.val > call.args[1]
    /\ (call.args[1] * (call.args[2] + call.args[3])) % call.args[2] # 0

\* C21: calculate_payout forms stake * (winning_pool + losing_pool) in a
\* wide intermediate: with a positive winning pool it succeeds whenever
\* the sum of the pools and the payout both fit in 64 bits, as for
\* (u64::MAX/2, u64::MAX/2, u64::MAX/2).
C21_PayoutWideIntermediate ==
    call.fn = "calculate_payout" =>
        LET user_stake == call.args[1]
            winning_pool == call.args[2]
            losing_pool == call.args[3]
        IN (/\ winning_pool > 0
            /\ winning_pool + losing_pool <= U64_MAX
            /\ (user_stake * (winning_pool + losing_pool)) \div winning_pool
                   <= U64_MAX)
           => call.result.res = "Ok"

\* C21, as the code behaves: with both pools positive the call succeeds
\* exactly when the sum of the pools and the product of the stake with it
\* both fit in 64 bits, and fails with MathOverflow otherwise.
C21_PayoutOverflowsInU64 ==
    (call.fn = "calculate_payout" /\ call.args[2] > 0 /\ call.args[3] > 0)
    => IF /\ call.args[2] + call.args[3] <= U64_MAX
          /\ call.args[1] * (call.args[2] + call.args[3]) <= U64_MAX
       THEN call.result.res = "Ok"
       ELSE call.result = Failure("MathOverflow")

\* C22: for a fixed stake and a positive winning pool, a larger losing pool
\* never gives a smaller payout when both calls succeed, and a payout is
\* never below the stake.
C22_PayoutMonotone ==
    (call.fn = "calculate_payout" /\ call.args[2] > 0
        /\ call.result.res = "Ok")
    => /\ call.result.val >= call.args[1]
       /\ \A l2 \in PoolInputs :
              LET r2 == calculate_payout(call.args[1], call.args[2], l2) IN
              (call.args[3] <= l2 /\ r2.res = "Ok")
              => call.result.val <= r2.val

\* A successful payout for which a larger losing pool pays strictly more.
C22_Witness ==
    /\ call.fn = "calculate_payout" /\ call.args[2] > 0 /\ call.args[3] > 0
    /\ call.result.res = "Ok"
    /\ \E l2 \in PoolInputs :
           LET r2 == calculate_payout(call.args[1], call.args[2], l2) IN
           /\ call.args[3] < l2 /\ r2.res = "Ok"
           /\ call.result.val < r2.val

\* C23: for every pair of 64-bit pools, both zero and sums above 64 bits
\* included, get_spot_prices returns two values between 0 and 10000 that
\* add up to 10000.
C23_SpotPricesSum ==
    call.fn = "get_spot_prices" =>
        /\ call.result.val[1] + call.result.val[2] = 10000
        /\ call.result.val[1] \in 0..10000
        /\ call.result.val[2] \in 0..10000

\* Spot prices of two pools whose sum does not fit in 64 bits, neither
\* price being zero.
C23_Witness ==
    /\ call.fn = "get_spot_prices"
    /\ call.args[1] + call.args[2] > U64_MAX
    /\ call.args[1] # call.args[2]
    /\ call.result.val[1] > 0 /\ call.result.val[2] > 0

\* C24: get_spot_prices returns (5000, 5000) when both pools are zero and
\* otherwise yes_bps = floor(yes_pool * 10000 / (yes_pool + no_pool)), the
\* sum being the true sum of the pools, for all 64-bit pools.
C24_SpotPriceOnTrueSum ==
    call.fn = "get_spot_prices" =>
        IF call.args[1] + call.args[2] = 0
        THEN call.result.val = <<5000, 5000>>
        ELSE call.result.val[1]
                 = (call.args[1] * 10000) \div (call.args[1] + call.args[2])

\* C24, as the code behaves: the divisor is the sum of the pools capped at
\* the largest 64-bit value.
C24_SpotPriceOnSaturatedSum ==
    call.fn = "get_spot_prices" =>
        LET sum == call.args[1] + call.args[2]
            total == IF sum <= U64_MAX THEN sum ELSE U64_MAX
        IN IF sum = 0
           THEN call.result.val = <<5000, 5000>>
           ELSE call.result.val[1] = (call.args[1] * 10000) \div total

\* The pools of a calculate_price_impact call before and after the
\* simulated addition.
ImpactBefore == Pools(call.args[1], call.args[2])
ImpactAfter ==
    Pools(IF call.args[4] = "Yes" THEN call.args[1] + call.args[3]
          ELSE call.args[1],
          IF call.args[4] = "No" THEN call.args[2] + call.args[3]
          ELSE call.args[2])
AbsDiff(a, b) == IF a > b THEN a - b ELSE b - a

\* C25: whenever calculate_price_impact(amount, side) succeeds (the pool
\* with the amount added being a 64-bit pool), its result is the absolute
\* difference between the YES price get_spot_prices returns for the
\* current pools and the one it returns for the pools with the amount
\* added to the chosen side.
C25_ImpactIsSpotPriceChange ==
    (/\ call.fn = "calculate_price_impact" /\ call.result.res = "Ok"
     /\ ImpactAfter.yes_pool <= U64_MAX /\ ImpactAfter.no_pool <= U64_MAX)
    => call.result.val = AbsDiff(get_spot_prices(ImpactBefore)[1],
                                 get_spot_prices(ImpactAfter)[1])

\* C25, as the code behaves: the result is the change of the YES price
\* get_spot_prices returns whenever the sum of the pools after the
\* addition fits in 64 bits.
C25_ImpactIsSpotPriceChangeInRange ==
    (/\ call.fn = "calculate_price_impact" /\ call.result.res = "Ok"
     /\ ImpactAfter.yes_pool + ImpactAfter.no_pool <= U64_MAX)
    => call.result.val = AbsDiff(get_spot_prices(ImpactBefore)[1],
                                 get_spot_prices(ImpactAfter)[1])

\* C26: calculate_price_impact fails with an overflow error whenever the
\* chosen side's pool plus the amount does not fit in 64 bits.
C26_ImpactAdditionOverflows ==
    (/\ call.fn = "calculate_price_impact"
     /\ (ImpactAfter.yes_pool > U64_MAX \/ ImpactAfter.no_pool > U64_MAX))
    => call.result.res = "MathOverflow"

\* C26, as the code behaves: the call never returns an overflow error; it
\* succeeds with a result of at most 10000 unless both pools and the
\* amount are zero, and then it panics on the division.
C26_ImpactNeverFails ==
    call.fn = "calculate_price_impact" =>
        IF call.args[1] + call.args[2] + call.args[3] = 0
        THEN call.result = Failure("Panic")
        ELSE call.result.res = "Ok" /\ call.result.val <= 10000

\* C27: for an external YES probability ext between 0 and 10000 and pools
\* with internal YES price yes_bps, calculate_arbitrage_opportunity returns
\* Some(Yes, ext - yes_bps) exactly when ext - yes_bps > 100,
\* Some(No, yes_bps - ext) exactly when yes_bps - ext > 100, and None
\* otherwise; a returned profit exceeds 100 bps.
C27_ArbitrageSignal ==
    (call.fn = "calculate_arbitrage_opportunity" /\ call.args[3] <= 10000)
    => LET ext == call.args[3]
           yes_bps == get_spot_prices(Pools(call.args[1], call.args[2]))[1]
       IN /\ call.result =
                 IF ext - yes_bps > 100
                 THEN Value(Some(<<"Yes", ext - yes_bps>>))
                 ELSE IF yes_bps - ext > 100
                 THEN Value(Some(<<"No", yes_bps - ext>>))
                 ELSE Value(None)
          /\ IsSome(call.result.val) => Unwrap(call.result.val)[2] > 100

\* The NO side signalled with the smallest profit above the threshold.
C27_Witness ==
    /\ call.fn = "calculate_arbitrage_opportunity" /\ call.args[3] <= 10000
    /\ call.result = Value(Some(<<"No", MIN_PROFIT_BPS + 1>>))

\* No signal at a mispricing of exactly the threshold.
C27_WitnessAtThreshold ==
    /\ call.fn = "calculate_arbitrage_opportunity"
    /\ call.args[3] = 5100 /\ call.args[1] = call.args[2]
    /\ call.result = Value(None)

\* The chosen side's pool and the other pool of a get_expected_payout call.
ExpectedWinPool == IF call.args[4] = "Yes" THEN call.args[1] ELSE call.args[2]
ExpectedLosePool == IF call.args[4] = "Yes" THEN call.args[2] ELSE call.args[1]

\* C28: get_expected_payout(amount, side) returns amount * 2 when the
\* chosen side's pool is empty and otherwise
\* floor(amount * (win_pool + lose_pool + amount) / (win_pool + amount));
\* when a step does not fit in 64 bits it returns MathOverflow, never a
\* wrapped value.
C28_ExpectedPayout ==
    call.fn = "get_expected_payout" =>
        LET amount == call.args[3]
            total_after == ExpectedWinPool + ExpectedLosePool + amount
        IN call.result =
               IF ExpectedWinPool = 0
               THEN IF amount * 2 <= U64_MAX THEN Value(amount * 2)
                    ELSE Failure("MathOverflow")
               ELSE IF total_after <= U64_MAX /\ amount * total_after <= U64_MAX
               THEN Value((amount * total_after)
                              \div (ExpectedWinPool + amount))
               ELSE Failure("MathOverflow")

\* A successful projection on two non-empty pools, rounded down and above
\* the amount staked.
C28_Witness ==
    /\ call.fn = "get_expected_payout" /\ call.result.res = "Ok"
    /\ ExpectedWinPool > 0 /\ ExpectedLosePool > 0
    /\ call.result.val > call.args[3]
    /\ (call.args[3] * (call.args[1] + call.args[2] + call.args[3]))
           % (ExpectedWinPool + call.args[3]) # 0

WithResolver(authority) ==
    [Accounts EXCEPT !.market.resolver_authority = authority]

\* C30: only the stored resolver authority can resolve: on either path a
\* call signed by anyone else fails with UnauthorizedResolver and changes
\* nothing, at any time and in any state, whoever the authority is.
C30_OnlyResolverResolves ==
    /\ \A authority \in Users :
       \A u \in Users \ {authority}, p \in PricesAround(market.target_price) :
           /\ resolve_market(WithResolver(authority), u, Some(p), now)
                  = Err("UnauthorizedResolver", WithResolver(authority))
           /\ resolve_market(WithResolver(authority), u, None, now)
                  = Err("UnauthorizedResolver", WithResolver(authority))
           /\ resolve_with_external_price(WithResolver(authority), u, p, now)
                  = Err("UnauthorizedResolver", WithResolver(authority))
    /\ (/\ last.op \in {"resolve_market", "resolve_with_external_price"}
        /\ last.who # market.resolver_authority)
           => last.res = "UnauthorizedResolver"

\* A due, unresolved market that another signer has just tried to resolve.
C30_Witness ==
    /\ last.op = "resolve_with_external_price"
    /\ last.who # market.resolver_authority
    /\ last.res = "UnauthorizedResolver"
    /\ now >= market.settle_time /\ ~market.is_resolved
    /\ market.yes_pool + market.no_pool > 0

\* C31: validate_oracle_price(confidence, last_update, now) succeeds
\* exactly when confidence <= oracle_confidence and now - last_update <= 60;
\* it fails with PriceConfidenceTooHigh when the confidence is too high
\* and with PriceTooStale when only the age is, for all 64-bit inputs.
C31_OracleGuard ==
    call.fn = "validate_oracle_price" =>
        LET price_confidence == call.args[1]
            age == call.args[3] - call.args[2]
        IN call.result.res =
               IF price_confidence > DefaultOracleConfidence
               THEN "PriceConfidenceTooHigh"
               ELSE IF age > 60 THEN "PriceTooStale"
               ELSE "Ok"

\* C31, as the code behaves: the claim holds whenever the age
\* now - last_update fits in an i64.
C31_OracleGuardInRange ==
    (/\ call.fn = "validate_oracle_price"
     /\ call.args[3] - call.args[2] \in I64_MIN..I64_MAX)
    => call.result.res =
           IF call.args[1] > DefaultOracleConfidence
           THEN "PriceConfidenceTooHigh"
           ELSE IF call.args[3] - call.args[2] > 60 THEN "PriceTooStale"
           ELSE "Ok"

\* C32: calculate_rebalance_amounts(yes_pool, no_pool) gives
\* floor(|yes_pool - no_pool| / 2) to the smaller side and 0 to the other:
\* at most one output is nonzero, both are 0 for equal pools,
\* (3000, 7000) gives (2000, 0) and (8000, 2000) gives (0, 3000).
C32_RebalanceAmounts ==
    call.fn = "calculate_rebalance_amounts" =>
        LET yes_pool == call.args[1]
            no_pool == call.args[2]
            yes_needed == call.result.val[1]
            no_needed == call.result.val[2]
        IN /\ yes_needed + no_needed = AbsDiff(yes_pool, no_pool) \div 2
           /\ yes_needed = 0 \/ no_needed = 0
           /\ yes_needed > 0 => yes_pool < no_pool
           /\ no_needed > 0 => no_pool < yes_pool
           /\ call.args = <<3000, 7000>> => call.result.val = <<2000, 0>>
           /\ call.args = <<8000, 2000>> => call.result.val = <<0, 3000>>

\* The rebalance of the pools (8000, 2000).
C32_Witness ==
    /\ call.fn = "calculate_rebalance_amounts"
    /\ call.args = <<8000, 2000>> /\ call.result.val = <<0, 3000>>

\* The skew of two pools: the distance of the YES share from 5000 bps.
Skew(yes_pool, no_pool) ==
    AbsDiff((yes_pool * 10000) \div (yes_pool + no_pool), 5000)

\* C33: should_rebalance(yes_pool, no_pool) is false for empty and for
\* balanced pools and true exactly when the deviation from an even split,
\* in basis points, exceeds target_spread_bps; with a spread of 500 it is
\* false for 5200/4800 and true for 7000/3000, 2000/8000, 10000/0, 0/10000.
C33_RebalanceSignal ==
    call.fn = "should_rebalance" =>
        LET target_spread_bps == call.args[1]
            yes_pool == call.args[2]
            no_pool == call.args[3]
        IN /\ yes_pool = no_pool => call.result.val = FALSE
           /\ yes_pool + no_pool > 0
                  => (call.result.val
                         <=> Skew(yes_pool, no_pool) > target_spread_bps)
           /\ call.args = <<500, 5200, 4800>> => call.result.val = FALSE
           /\ call.args \in {<<500, 7000, 3000>>, <<500, 2000, 8000>>,
                             <<500, 10000, 0>>, <<500, 0, 10000>>}
                  => call.result.val = TRUE

\* The signal for the pools (2000, 8000) with a spread of 500.
C33_Witness ==
    /\ call.fn = "should_rebalance"
    /\ call.args = <<DefaultSpreadBps, 2000, 8000>> /\ call.result.val = TRUE

\* C39: calculate_price_impact returns a value or a typed error for every
\* amount and every pair of pools, amount 0 on two empty pools included:
\* it never divides by zero or aborts.
C39_ImpactIsTotal ==
    call.fn = "calculate_price_impact" => call.result.res # "Panic"

\* C40: calculate_arbitrage_opportunity is total over all 64-bit
\* ext_yes_bps: above 10000 the difference 10000 - ext_yes_bps never
\* underflows or wraps, and the result is None or a side with its margin
\* |ext_yes_bps - yes_bps|, which exceeds the threshold.
C40_ArbitrageIsTotal ==
    call.fn = "calculate_arbitrage_opportunity" =>
        LET ext == call.args[3]
            yes_bps == get_spot_prices(Pools(call.args[1], call.args[2]))[1]
        IN /\ call.result.res = "Ok"
           /\ IsSome(call.result.val)
                  => /\ Unwrap(call.result.val)[2] = AbsDiff(ext, yes_bps)
                     /\ Unwrap(call.result.val)[1]
                            = IF ext > yes_bps THEN "Yes" ELSE "No"

\* C40, as the code behaves: the result is as claimed whenever the first
\* comparison decides (ext_yes_bps > yes_bps + 100) or ext_yes_bps is at
\* most 10000.
C40_ArbitrageIsTotalInRange ==
    (/\ call.fn = "calculate_arbitrage_opportunity"
     /\ \/ call.args[3] <= 10000
        \/ call.args[3] > get_spot_prices(Pools(call.args[1], call.args[2]))[1]
                              + MIN_PROFIT_BPS)
    => /\ call.result.res = "Ok"
       /\ IsSome(call.result.val)
              => /\ Unwrap(call.result.val)[2]
                        = AbsDiff(call.args[3],
                                  get_spot_prices(Pools(call.args[1],
                                                        call.args[2]))[1])
                 /\ Unwrap(call.result.val)[1]
                        = IF call.args[3]
                               > get_spot_prices(Pools(call.args[1],
                                                       call.args[2]))[1]
                          THEN "Yes" ELSE "No"

\* The vaults of the winning and of the losing side.
WinningVault == IF WinnerIsYes THEN yes_vault ELSE no_vault
LosingVault == IF WinnerIsYes THEN no_vault ELSE yes_vault

\* The profit claim_winnings computes for a participant now.
ProfitOf(u) == claim_profit(WinningStake(u), WinningPool, LosingPool)

\* C34: in a resolved market, after any bets, liquidity provisions and
\* earlier claims, every claim by an unclaimed position with a winning
\* stake can be paid in full: the winning vault holds at least the stake
\* and the losing vault at least the profit computed for it.
C34_ClaimsSolvent ==
    market.is_resolved =>
        \A u \in Users :
            (/\ positions[u].exists /\ ~positions[u].claimed
             /\ WinningStake(u) > 0)
            => /\ WinningVault >= WinningStake(u)
               /\ IsSome(ProfitOf(u)) /\ LosingVault >= Unwrap(ProfitOf(u))
               /\ claim_winnings(Accounts, u).res = "Ok"

\* The sum of f[u] over the participants in S.
RECURSIVE SumOver(_, _)
SumOver(f, S) ==
    IF S = {} THEN 0
    ELSE LET u == CHOOSE x \in S : TRUE IN f[u] + SumOver(f, S \ {u})

\* The stakes all positions hold on each side.
YesStakes == SumOver([u \in Users |-> positions[u].yes_amount], Users)
NoStakes == SumOver([u \in Users |-> positions[u].no_amount], Users)

\* C35: the YES pool is the sum of the positions' YES stakes and the NO
\* pool the sum of their NO stakes; so no position's stake exceeds its
\* pool and the profit of a claim never exceeds the losing pool.
C35_PoolsAreStakeSums ==
    /\ market.yes_pool = YesStakes
    /\ market.no_pool = NoStakes
    /\ \A u \in Users :
        /\ positions[u].yes_amount <= market.yes_pool
        /\ positions[u].no_amount <= market.no_pool
        /\ (market.is_resolved /\ WinningStake(u) > 0)
           => /\ IsSome(ProfitOf(u))
              /\ Unwrap(ProfitOf(u)) <= LosingPool

\* C35 witness: both participants hold stakes, one of them from a bet and
\* from liquidity, and a winner has been paid a profit.
C35_Witness ==
    /\ \A u \in Users : positions[u].yes_amount + positions[u].no_amount > 0
    /\ market.yes_pool # market.no_pool
    /\ market_maker.total_volume_provided > 0
    /\ last.op = "claim_winnings" /\ last.res = "Ok" /\ last.paid_lose > 0

\* C36: in every reachable state the two pools and the fees collected add
\* up to the total volume of the market.
C36_VolumeIsConserved ==
    market.yes_pool + market.no_pool + market.total_fees_collected
        = market.total_volume

\* C36 witness: bets with a fee and liquidity have both been counted.
C36_Witness ==
    /\ market.total_fees_collected > 0
    /\ market_maker.total_volume_provided > 0
    /\ market.yes_pool > 0 /\ market.no_pool > 0
    /\ market.total_volume > market.yes_pool + market.no_pool

\* Whether 2 * amount_per_side or its sum with the current exposure does
\* not fit in 64 bits.
ExposureOverflows(amount_per_side) ==
    \/ 2 * amount_per_side > U64_MAX
    \/ market_maker.current_exposure + 2 * amount_per_side > U64_MAX

\* C37: current_exposure equals total_volume_provided in every state; an
\* accepted provide_liquidity(amount_per_side) adds exactly twice the
\* amount to it and no other step changes it, so it is twice the sum of the
\* amounts of the accepted calls; and a call whose doubled amount or
\* exposure sum does not fit in 64 bits fails and changes nothing.
C37_ExposureTracksLiquidity ==
    /\ [](market_maker.current_exposure = market_maker.total_volume_provided)
    /\ [][/\ (StepOf("provide_liquidity") /\ last'.res = "Ok")
             => /\ ~ExposureOverflows(last'.amount)
                /\ market_maker'.current_exposure
                     = market_maker.current_exposure + 2 * last'.amount
          /\ ~(StepOf("provide_liquidity") /\ last'.res = "Ok")
             => market_maker'.current_exposure = market_maker.current_exposure
          /\ (StepOf("provide_liquidity") /\ market_maker.exists
                /\ ExposureOverflows(last'.amount))
             => /\ last'.res # "Ok"
                /\ UNCHANGED AccountVars]_vars

\* C37 witness: after accepted provisions, a provision whose exposure sum
\* does not fit in 64 bits has been refused.
C37_Witness ==
    /\ last.op = "provide_liquidity"
    /\ last.res = "MathOverflow"
    /\ market_maker.current_exposure > 2
    /\ market_maker.current_exposure + 2 * last.amount > U64_MAX

\* C38: the market's total_fees_collected is the balance of the fee vault
\* plus what consolidate_funds has moved to the treasury; before resolution
\* consolidate_funds is rejected, with MarketNotResolved when the fee
\* collector's authority signs, and changes nothing; an accepted call
\* empties the fee vault and adds exactly the moved amount to the treasury
\* and to the fee collector's total.
C38_FeeCustody ==
    /\ [](market.total_fees_collected = fee_vault + treasury_account)
    /\ [][StepOf("consolidate_funds")
          => /\ ~market.is_resolved
                => /\ last'.res # "Ok"
                   /\ UNCHANGED AccountVars
                   /\ last'.who = fee_collector.authority
                        => last'.res = "MarketNotResolved"
             /\ last'.res = "Ok"
                => /\ fee_vault' = 0
                   /\ treasury_account' = treasury_account + fee_vault
                   /\ fee_collector'.total_fees_collected
                        = fee_collector.total_fees_collected + fee_vault
                   /\ market' = market]_vars

\* C38 witness: fees of bets have been swept to the treasury by an
\* accepted consolidate_funds, which left the fee vault empty.
C38_Witness ==
    /\ last.op = "consolidate_funds"
    /\ last.res = "Ok"
    /\ fee_vault = 0
    /\ treasury_account > 0
    /\ fee_collector.total_fees_collected = treasury_account
    /\ market.total_fees_collected = treasury_account

====
